---- MODULE Spec2Model ----
(***************************************************************************)
(* The AIDataVisualization widget (ai-visualization.ts): session state,    *)
(* conversation context, render sandbox, host side of the bridge and the   *)
(* history store, as a state machine.                                      *)
(*                                                                         *)
(* Text is a sequence of tokens.  A token is one UTF-16 code unit (" "      *)
(* stands for any whitespace character, "bt" for a backtick, "x", "y", "z" *)
(* for text that holds none of the characters the code looks for,          *)
(* "U+0130" for the capital I with dot) or a unit that is never split: the *)
(* word "html" after a fence, a script element "SCRIPT" of an artifact,    *)
(* the bridge "BRIDGE".                                                    *)
(***************************************************************************)
EXTENDS Integers, Sequences, FiniteSets, TLC

\* Number of completion calls one behaviour issues.
MaxCalls == 2

\* Number of data-access calls the code of one sandbox document makes.
MaxRequests == 2

\* Number of insertions into the history store that are followed.
MaxInserts == 11

\* null / undefined of a text-valued field.
Null == <<"null">>
\* null of activeHistoryIndex (indices are 0-based as in the code).
NoIndex == -1
\* The history keeps at most this many entries.
HistoryLimit == 10

----------------------------------------------------------------------------
\* String helpers

RECURSIVE TrimStart(_)
TrimStart(s) == IF s # <<>> /\ Head(s) = " " THEN TrimStart(Tail(s)) ELSE s

RECURSIVE TrimEnd(_)
TrimEnd(s) ==
  IF s # <<>> /\ s[Len(s)] = " " THEN TrimEnd(SubSeq(s, 1, Len(s) - 1)) ELSE s

\* String.prototype.trim
trim(s) == TrimEnd(TrimStart(s))

\* s starts with the three backticks of a fence
StartsWithFence(s) == Len(s) >= 3 /\ s[1] = "bt" /\ s[2] = "bt" /\ s[3] = "bt"

\* cleaned.replace(/^FENCE\s*html\s*/i, ''), FENCE being three backticks
StripHtmlFence(s) ==
  IF StartsWithFence(s)
  THEN LET r == TrimStart(SubSeq(s, 4, Len(s)))
       IN  IF r # <<>> /\ Head(r) = "html" THEN TrimStart(Tail(r)) ELSE s
  ELSE s

\* cleaned.replace(/^FENCE/, '')
StripFence(s) == IF StartsWithFence(s) THEN SubSeq(s, 4, Len(s)) ELSE s

\* cleaned.replace(/FENCE\s*$/i, ''): the leftmost match is the last three
\* backticks before the trailing whitespace
StripTrailingFence(s) ==
  LET t == TrimEnd(s)
      n == Len(t)
  IN  IF n >= 3 /\ t[n] = "bt" /\ t[n - 1] = "bt" /\ t[n - 2] = "bt"
      THEN SubSeq(t, 1, n - 3)
      ELSE s

sanitizeHtmlResponse(raw) ==
  trim(StripTrailingFence(StripFence(StripHtmlFence(trim(raw)))))

\* htmlContent.indexOf(tok, from) over tokens, 0-based, -1 when absent
IndexOf(s, tok, from) ==
  LET hits == {i \in (from + 1)..Len(s) : s[i] = tok}
  IN  IF hits = {} THEN -1 ELSE (CHOOSE i \in hits : \A j \in hits : i <= j) - 1

\* s.indexOf(sub), sub a text of several code units
IndexOfText(s, sub) ==
  LET hits == {i \in 0..(Len(s) - Len(sub)) :
                 SubSeq(s, i + 1, i + Len(sub)) = sub}
  IN  IF hits = {} THEN -1 ELSE CHOOSE i \in hits : \A j \in hits : i <= j

\* htmlContent.slice(a, b) with 0 <= a, 0-based, end exclusive; positions
\* behind the end count as the end
Slice(s, a, b) ==
  SubSeq(s, (IF a < Len(s) THEN a ELSE Len(s)) + 1,
            IF b < Len(s) THEN b ELSE Len(s))

\* The lower case of one code unit: one code unit, but two for the capital
\* I with dot (U+0130 gives i and the combining dot U+0307).
LowerCaseOf(c) ==
  CASE c = "U+0130" -> <<"i", "U+0307">>
    [] c = "H" -> <<"h">>
    [] c = "E" -> <<"e">>
    [] c = "A" -> <<"a">>
    [] c = "D" -> <<"d">>
    [] OTHER -> <<c>>

\* String.prototype.toLowerCase
RECURSIVE toLowerCase(_)
toLowerCase(s) ==
  IF s = <<>> THEN <<>> ELSE LowerCaseOf(Head(s)) \o toLowerCase(Tail(s))

\* '</head>' and '<body', code unit by code unit
HeadClose == <<"<", "/", "h", "e", "a", "d", ">">>
BodyOpen == <<"<", "b", "o", "d", "y">>

\* The two bridge <script> elements, as one token.
bridge == <<"BRIDGE">>

\* private injectApiBridge(htmlContent): the two markers are looked for in
\* the lower case of htmlContent, and the positions found there are used
\* in htmlContent.
injectApiBridge(htmlContent) ==
  LET headClose == IndexOfText(toLowerCase(htmlContent), HeadClose)
      bodyOpen  == IndexOfText(toLowerCase(htmlContent), BodyOpen)
      bodyTagEnd == IndexOf(htmlContent, ">", bodyOpen) + 1
  IN  IF headClose # -1
      THEN Slice(htmlContent, 0, headClose) \o bridge
             \o Slice(htmlContent, headClose, Len(htmlContent))
      ELSE IF bodyOpen # -1
      THEN Slice(htmlContent, 0, bodyTagEnd) \o bridge
             \o Slice(htmlContent, bodyTagEnd, Len(htmlContent))
      ELSE bridge \o htmlContent

----------------------------------------------------------------------------
\* Host inputs

\* config.apiDescription of the widget that is followed (validateConfig has
\* found it non-empty)
apiDescription == <<"API">>

\* What the textarea can hold when generateVisualization reads it.
UserTexts == {<<>>, <<" ">>, <<" ", "a", " ">>}

\* A generated document
Document == BodyOpen \o <<">", "x">>

\* A second generated document
OtherDocument == <<"z">>

\* What a completion can resolve to: nothing, blanks, fences only, a bare
\* document, a document in a tagged fence.
Outputs ==
  { <<>>, <<" ">>, <<"bt", "bt", "bt", "html", " ", "bt", "bt", "bt">>,
    Document,
    <<"bt", "bt", "bt", "html", " ">> \o Document \o <<" ", "bt", "bt", "bt">> }

\* How a completion call can settle.
Outcomes ==
  [kind : {"text"}, text : Outputs]
    \cup {[kind |-> "nonText", text |-> Null],
          [kind |-> "rejectError", text |-> Null],
          [kind |-> "rejectValue", text |-> Null]}

\* Messages a window can post to the host.
Messages ==
  { [type |-> "IFRAME_ERROR", message |-> "boom", requestId |-> "", url |-> ""],
    [type |-> "IFRAME_ERROR", message |-> "", requestId |-> "", url |-> ""],
    [type |-> "API_REQUEST", message |-> "", requestId |-> "req_1", url |-> "/api/x"],
    [type |-> "API_REQUEST", message |-> "", requestId |-> "", url |-> "/api/x"],
    [type |-> "OTHER", message |-> "", requestId |-> "", url |-> ""] }

\* event.data that is null (or undefined): reading data.type throws
NullPayload ==
  [type |-> "(null)", message |-> "", requestId |-> "", url |-> ""]

\* event.data that is a string or a number: it has no field, data.type is
\* undefined
PrimitivePayload ==
  [type |-> "(undefined)", message |-> "", requestId |-> "", url |-> ""]

\* Messages of no known shape: an unknown type, an API_REQUEST without
\* request id, one without URL, null, a primitive value.
UnknownShapes ==
  { [type |-> "OTHER", message |-> "", requestId |-> "", url |-> ""],
    [type |-> "API_REQUEST", message |-> "", requestId |-> "", url |-> "/api/x"],
    [type |-> "API_REQUEST", message |-> "", requestId |-> "req_1", url |-> ""],
    NullPayload, PrimitivePayload }

Sources == {"sandbox", "other"}

\* undefined, as the value of a message field that is absent
Undefined == "(undefined)"

\* How a fetch call can settle: it resolves with a payload, it rejects with an
\* Error (whose message may be empty), it rejects with a value that is no
\* Error.
FetchOutcomes ==
  { [kind |-> "data", value |-> "payload"],
    [kind |-> "rejectError", value |-> "fetch failed"],
    [kind |-> "rejectError", value |-> ""],
    [kind |-> "rejectValue", value |-> "boom"] }

\* no fetch call
NoFetchOutcome == [kind |-> "none", value |-> ""]

\* The URLs the code of a sandbox document asks for, call after call.
Urls == <<"/api/x", "/api/y", "/api/z">>

\* The correlation ids the bridge makes of Date.now() and Math.random(): two
\* calls can draw the same id.
RequestIds == {"req_1", "req_2"}

----------------------------------------------------------------------------
\* Faults

Fault(name, type, message) == [name |-> name, type |-> type, message |-> message]

\* nothing thrown
NoFault == Fault("none", "", "")

\* new AIDataVisualizationError(ErrorType.INVALID_HTML_RESPONSE, ...)
EmptyResponseError ==
  Fault("AIDataVisualizationError", "invalid-html-response",
        "AI returned empty response")

\* raw.trim() on a value that is no string
NotTextError == Fault("TypeError", "", "raw.trim is not a function")

\* the Error a rejecting (or throwing) completion callback hands over
CompletionError == Fault("Error", "", "completion failed")

\* a querySelector result that is null after destroy() emptied the container
DomError == Fault("TypeError", "", "Cannot read properties of null")

\* TypeError of data.type for data that is null
NullDataError == Fault("TypeError", "", "Cannot read properties of null")

\* what the callback onError does with a fault
OnErrorBehaviours == {"returns", "throws"}

\* new AIDataVisualizationError(ErrorType.CONTAINER_NOT_FOUND, ...)
ContainerNotFound ==
  Fault("AIDataVisualizationError", "container-not-found",
        "Container element not found")

\* new AIDataVisualizationError(ErrorType.INVALID_API_DESCRIPTION, ...)
ApiDescriptionRequired ==
  Fault("AIDataVisualizationError", "invalid-api-description",
        "API description is required")

\* new AIDataVisualizationError(ErrorType.CHAT_COMPLETION_FAILED, ...)
ChatCompletionNoFunction ==
  Fault("AIDataVisualizationError", "chat-completion-failed",
        "chatCompletion must be a function")

\* new AIDataVisualizationError(ErrorType.API_REQUEST_FAILED, ...)
ApiRequestNoFunction ==
  Fault("AIDataVisualizationError", "api-request-failed",
        "apiRequest must be a function")

\* The configurations a caller can hand to the constructor.  container: a
\* selector that matches an element, a selector that matches none, or an
\* element; apiDescription: a text, the empty text, or none; the two
\* callbacks: a function, a value that is no function, or none.
Configs ==
  [ container : {"selector", "selectorOfNothing", "element"},
    apiDescription : {<<"API">>, <<>>, Null},
    chatCompletion : {"function", "text", "undefined"},
    apiRequest : {"function", "text", "undefined"} ]

\* The configuration of the widget that is followed after its construction.
ValidConfig ==
  [ container |-> "element", apiDescription |-> <<"API">>,
    chatCompletion |-> "function", apiRequest |-> "function" ]

----------------------------------------------------------------------------
\* State

VARIABLES
  state,               \* this.state
  uiState,             \* the state whose controls setState rendered last
  originalPrompt,      \* this.originalPrompt
  improvementPrompts,  \* this.improvementPrompts
  lastGeneratedCode,   \* this.lastGeneratedCode
  activeHistoryIndex,  \* this.activeHistoryIndex
  history,             \* this.history
  storage,             \* localStorage[HISTORY_KEY]
  iframe,              \* this.iframe: "none" or "frame"
  srcdoc,              \* content of the sandbox
  dom,                 \* the widget's DOM is in the container
  listening,           \* the window message listener is registered
  hasOnError,          \* config.onError is set
  storeWorks,          \* localStorage takes a write at this moment
  peer,                \* a second widget on the page: its this.history
  pending,             \* completion calls awaited
  callsMade,           \* number of completion calls issued
  fetches,             \* fetch calls awaited
  config,              \* this.config, but for onError
  waiters,             \* the promises window.apiRequest made in the sandbox
  toHost,              \* messages the sandbox posted to the host, in flight
  toSandbox,           \* messages the host posted into the sandbox, in flight
  now,                 \* Date.now()
  last                 \* the operation that ran last and what it did

vars ==
  << state, uiState, originalPrompt,
     improvementPrompts, lastGeneratedCode, activeHistoryIndex, history,
     storage, iframe, srcdoc, dom, listening, hasOnError, storeWorks, peer,
     pending, callsMade, fetches, config, waiters, toHost, toSandbox, now,
     last >>

\* the error box when it is not displayed
Hidden == "(hidden)"

\* A history item that loses its prompt
HistoryItemPromptless(p, h, t) == [prompt |-> <<>>, html |-> h, timestamp |-> t]

\* A history item
HistoryItem(p, h, t) == [prompt |-> p, html |-> h, timestamp |-> t]

\* localStorage content: no record, or JSON text
NoRecord == [kind |-> "absent", value |-> <<>>]
JSONstringify(h) == [kind |-> "json", value |-> h]
JSONparse(raw) == raw.value

\* A record whose text is no JSON: JSON.parse throws on it
CorruptRecord == [kind |-> "corrupt", value |-> <<>>]

\* this.history after loadHistory assigned it a parsed value that is no
\* array, such as {} or 5: the value has no forEach.  (A one-element list of
\* a marker stands for it, history being a list everywhere else.)
NotAList == <<[prompt |-> <<"(no array)">>, html |-> Null, timestamp |-> 0]>>

\* A record whose text is JSON of a value that is no array: '{}'
NonListRecord == [kind |-> "json", value |-> NotAList]

\* A record whose text is JSON of an array of one object that has neither
\* prompt nor html: '[{"timestamp":0}]'
NoEntryRecord ==
  [ kind |-> "json",
    value |-> <<[prompt |-> Null, html |-> Null, timestamp |-> 0]>> ]

\* The record an earlier session left in the store
StoredAtStartup ==
  JSONstringify(<< HistoryItem(<<"c">>, <<"x">> \o HeadClose \o <<"y">>, 0),
                   HistoryItem(<<"b">>, <<"z">>, 0) >>)

\* What the bookkeeping variable last remembers of the state an operation
\* started in.
Snapshot ==
  [ state |-> state, uiState |-> uiState, originalPrompt |-> originalPrompt,
    improvementPrompts |-> improvementPrompts,
    lastGeneratedCode |-> lastGeneratedCode,
    activeHistoryIndex |-> activeHistoryIndex, history |-> history,
    storage |-> storage, iframe |-> iframe, srcdoc |-> srcdoc,
    pending |-> pending, callsMade |-> callsMade, dom |-> dom,
    listening |-> listening, fetches |-> fetches, waiters |-> waiters,
    toHost |-> toHost, toSandbox |-> toSandbox, storeWorks |-> storeWorks,
    peer |-> peer ]

\* What an operation that touches nothing reports back.
\* promise: what became of the promise the operation returned or settled;
\* threw: an exception left the operation; onError: the faults it passed to
\* config.onError; errorBox: the text it put into the error box (Hidden when
\* it hid the box, Untouched otherwise); posted: the message it posted into
\* the sandbox; input: the textarea value it read; prompt: the prompt it
\* passed to config.chatCompletion; outcome: how the completion it resumed
\* from had settled; thrown: the exception that left it; received: the
\* message event it handled, and source, the window that had posted it;
\* fetched: the URL it passed to config.apiRequest; delivered: the message
\* event dispatched in the sandbox; waiter: the number of the call of
\* window.apiRequest it made or timed out; call: the generateVisualization
\* call it resumed.
Untouched == "(untouched)"
NoOutcome == [kind |-> "none", text |-> Null]
NoMessage ==
  [ type |-> "none", requestId |-> "", data |-> Undefined,
    error |-> Undefined, cause |-> NoFetchOutcome ]
NoEvent == [type |-> "none", message |-> "", requestId |-> "", url |-> ""]
NoEntry == [prompt |-> Null, html |-> Null, timestamp |-> -1]
NoCall ==
  [ id |-> 0, isImprovement |-> FALSE, message |-> <<>>, prompt |-> <<>>,
    displayed |-> FALSE, onEmpty |-> FALSE, orig |-> <<>>,
    target |-> NoEntry ]
Quiet ==
  [ promise |-> "none", threw |-> FALSE, onError |-> <<>>,
    errorBox |-> Untouched, posted |-> NoMessage, input |-> <<>>,
    prompt |-> <<>>, outcome |-> NoOutcome, thrown |-> NoFault,
    received |-> NoEvent, source |-> "", fetched |-> "",
    delivered |-> NoMessage, waiter |-> 0, call |-> NoCall ]

\* The bookkeeping record of operation op with outputs out.
Did(op, out) ==
  [ op |-> op, promise |-> out.promise, threw |-> out.threw,
    onError |-> out.onError, errorBox |-> out.errorBox,
    posted |-> out.posted, input |-> out.input, prompt |-> out.prompt,
    outcome |-> out.outcome, thrown |-> out.thrown,
    received |-> out.received, source |-> out.source,
    fetched |-> out.fetched, delivered |-> out.delivered,
    waiter |-> out.waiter, call |-> out.call, pre |-> Snapshot ]

\* private loadHistory
loadHistory(raw) == IF raw.kind = "json" THEN JSONparse(raw) ELSE <<>>

\* try { localStorage.setItem(HISTORY_KEY, value) } catch {}: what the store
\* holds afterwards.  A store that is unavailable or full throws, and the
\* exception is dropped.
setItem(value) == IF storeWorks THEN value ELSE storage

\* clearHistory leaving the record in the store
removeItemSkipped == storage

\* try { localStorage.removeItem(HISTORY_KEY) } catch {}
removeItem == IF storeWorks THEN NoRecord ELSE storage

\* The widget that new AIDataVisualization(config) returns for a valid
\* configuration, the durable store holding record.
Constructed(record) ==
  /\ state = "idle"
  /\ uiState = "idle"
  /\ originalPrompt = Null
  /\ improvementPrompts = <<>>
  /\ lastGeneratedCode = Null
  /\ activeHistoryIndex = NoIndex
  /\ storage = record
  /\ history = loadHistory(storage)
  /\ iframe = "none"
  /\ srcdoc = <<>>
  /\ dom = TRUE
  /\ listening = TRUE
  /\ hasOnError \in BOOLEAN
  /\ storeWorks = TRUE
  /\ peer = [history |-> loadHistory(record)]
  /\ pending = {}
  /\ callsMade = 0
  /\ fetches = {}
  /\ config = ValidConfig
  /\ waiters = <<>>
  /\ toHost = <<>>
  /\ toSandbox = <<>>
  /\ now = 0
  /\ last = Did("init", Quiet)

Init == Constructed(StoredAtStartup)

----------------------------------------------------------------------------
\* Prompt builder

\* [this.originalPrompt, ...this.improvementPrompts].filter(Boolean)
Kept(orig, improvements) ==
  SelectSeq(<<orig>> \o improvements, LAMBDA p : p # Null /\ p # <<>>)

\* parts.join('\n')
RECURSIVE Join(_)
Join(parts) ==
  IF parts = <<>> THEN <<>>
  ELSE IF Len(parts) = 1 THEN parts[1]
  ELSE parts[1] \o <<"\n">> \o Join(Tail(parts))

\* buildVisualizationPrompt leaving the API description out
buildVisualizationPromptNoApi(userMessage) ==
  <<"FRESH: USER REQUEST">> \o userMessage
    \o <<"AVAILABLE API ENDPOINTS">>
    \o <<"TASK, REQUIREMENTS, EXAMPLE API USAGE">>

\* private buildVisualizationPrompt(userMessage)
buildVisualizationPrompt(userMessage) ==
  <<"FRESH: USER REQUEST">> \o userMessage
    \o <<"AVAILABLE API ENDPOINTS">> \o apiDescription
    \o <<"TASK, REQUIREMENTS, EXAMPLE API USAGE">>

\* private buildImprovementPrompt(existingCode), reading this.originalPrompt
\* and this.improvementPrompts
buildImprovementPrompt(existingCode, orig, improvements) ==
  <<"IMPROVE: AVAILABLE API ENDPOINTS">> \o apiDescription
    \o <<"EXISTING VISUALIZATION CODE START">> \o existingCode
    \o <<"EXISTING VISUALIZATION CODE END", "FULL USER REQUEST HISTORY">>
    \o Join(Kept(orig, improvements))
    \o <<"REQUIREMENTS">>

----------------------------------------------------------------------------
\* Session state

\* isImprovement without the test of the state
IsImprovementAnyState == lastGeneratedCode # Null

\* isImprovement taking the widget's error display for a displayed artifact
IsImprovementFromError ==
  lastGeneratedCode # Null /\ (state = "displaying" \/ uiState = "error")

\* const isImprovement = this.lastGeneratedCode !== null
\*                       && this.state === VisualizationState.DISPLAYING
IsImprovement == lastGeneratedCode # Null /\ state = "displaying"

\* private setState(state): renders the controls of state s.  The method
\* assigns no field: this.state keeps its value.
setState(s) ==
  /\ uiState' = s
  /\ state' = state

\* private showError(msg): what the error box displays afterwards
showError(msg) == msg

\* private hideError(): what the error box displays afterwards
hideError == Hidden

\* The Error of a caught value: error instanceof Error ? error
\*                              : new Error('Failed to generate visualization')
Reported(thrown) ==
  IF thrown.name = "value"
  THEN Fault("Error", "", "Failed to generate visualization")
  ELSE thrown

\* a rejection value that is no Error
PlainValue == Fault("value", "", "")

\* The catch block of generateVisualization, written for operation op, which
\* read text and passed prompt.  With the DOM gone setState throws out of the
\* catch block.  outcome: how the awaited completion had settled.
CatchBlock(op, thrown, behaviour, text, prompt, outcome) ==
  IF dom
  THEN /\ setState("error")
       /\ last' = Did(op,
            [ Quiet EXCEPT
                !.input = text, !.prompt = prompt, !.outcome = outcome,
                !.errorBox = showError(Reported(thrown).message),
                !.onError = IF hasOnError THEN <<Reported(thrown)>> ELSE <<>>,
                !.promise = IF hasOnError /\ behaviour = "throws"
                            THEN "rejected" ELSE "resolved" ])
  ELSE /\ UNCHANGED <<state, uiState>>
       /\ last' = Did(op, [Quiet EXCEPT !.promise = "rejected",
                                        !.input = text, !.prompt = prompt,
                                        !.outcome = outcome])

----------------------------------------------------------------------------
\* History store

\* saveHistory without the slice
saveHistoryUnbounded(h, item) == <<item>> \o h

\* private saveHistory(item): unshift, slice(0, 10)
saveHistory(h, item) ==
  LET u == <<item>> \o h
  IN  SubSeq(u, 1, IF Len(u) < HistoryLimit THEN Len(u) ELSE HistoryLimit)

\* private replaceHistory(idx, item)
replaceHistory(h, idx, item) ==
  IF idx < 0 \/ idx >= Len(h) THEN h ELSE [h EXCEPT ![idx + 1] = item]

\* history.splice(idx, 1)
Splice(h, idx) == SubSeq(h, 1, idx) \o SubSeq(h, idx + 2, Len(h))

----------------------------------------------------------------------------
\* Operations

\* A message a document of the sandbox posted to the host, in flight.
\* superseded remembers that the document that posted it has been replaced
\* or removed since; it is no part of the message.
InFlight(d) == [data |-> d, superseded |-> FALSE]

\* The messages in flight to the host once the document that posted them is
\* gone: they stay in flight.
Superseded(q) == [i \in DOMAIN q |-> [q[i] EXCEPT !.superseded = TRUE]]

\* The fetch calls awaited once the document whose requests they serve is
\* gone: they stay awaited.
SupersededFetches(fs) == {[f EXCEPT !.superseded = TRUE] : f \in fs}

\* private displayVisualization(htmlContent).  Assigning srcdoc loads a new
\* document into the sandbox: the promises, listeners and timers of the
\* document it replaces are gone, and so is what was posted into it and not
\* delivered yet.  What the replaced document posted to the host stays in
\* flight, and the fetch calls made for it stay awaited.
displayVisualization(htmlContent) ==
  /\ iframe' = "frame"
  /\ srcdoc' = injectApiBridge(htmlContent)
  /\ waiters' = <<>>
  /\ toSandbox' = <<>>
  /\ toHost' = Superseded(toHost)
  /\ fetches' = SupersededFetches(fetches)

\* the emptiness test without the trim
IsBlankUntrimmed(text) == text = <<>>

\* const message = textarea.value.trim(); if (!message) ...
IsBlank(text) == trim(text) = <<>>

\* public generateVisualization(), up to the await (or to its end when it
\* does not get there).  text: textarea.value as the user left it; throws:
\* chatCompletion throws instead of returning a promise.
generateVisualization(text, throws, behaviour) ==
  LET message == trim(text)
      isImprovement == IsImprovement
      orig == IF isImprovement THEN originalPrompt ELSE message
      improvements ==
        IF isImprovement THEN Append(improvementPrompts, message) ELSE <<>>
      prompt ==
        IF isImprovement
        THEN buildImprovementPrompt(lastGeneratedCode, orig, improvements)
        ELSE buildVisualizationPrompt(message)
      \* the locals of the call that are alive across the await; displayed
      \* remembers that the widget showed an artifact it held when the user
      \* submitted, onEmpty that the history was empty and no other call
      \* awaited then, orig the original prompt of the conversation that is
      \* submitted, target the history entry an improvement is to replace
      \* (the active one): the four are no locals of the code
      call == [ id |-> callsMade + 1, isImprovement |-> isImprovement,
                message |-> message, prompt |-> prompt,
                displayed |-> (lastGeneratedCode # Null
                                 /\ uiState = "displaying"),
                onEmpty |-> (history = <<>> /\ pending = {}),
                orig |-> orig,
                target |-> IF isImprovement /\ activeHistoryIndex >= 0
                                /\ activeHistoryIndex < Len(history)
                           THEN history[activeHistoryIndex + 1]
                           ELSE NoEntry ]
  IN
  IF ~dom
  THEN \* textarea is null: the TypeError rejects the returned promise
       /\ last' = Did("generateVisualization",
                      [Quiet EXCEPT !.promise = "rejected", !.input = text])
       /\ UNCHANGED << state, uiState, originalPrompt, improvementPrompts,
                       lastGeneratedCode, activeHistoryIndex, history, storage,
                       iframe, srcdoc, dom, listening, hasOnError, storeWorks,
                       peer, pending, callsMade, fetches, config, waiters,
                       toHost, toSandbox, now >>
  ELSE IF IsBlank(text)
  THEN /\ last' = Did("generateVisualization",
            [ Quiet EXCEPT
                !.promise = "resolved", !.input = text,
                !.errorBox = showError("Please enter a visualization request") ])
       /\ UNCHANGED << state, uiState, originalPrompt, improvementPrompts,
                       lastGeneratedCode, activeHistoryIndex, history, storage,
                       iframe, srcdoc, dom, listening, hasOnError, storeWorks,
                       peer, pending, callsMade, fetches, config, waiters,
                       toHost, toSandbox, now >>
  ELSE /\ callsMade < MaxCalls
       /\ originalPrompt' = orig
       /\ improvementPrompts' = improvements
       /\ callsMade' = callsMade + 1
       /\ IF throws
          THEN /\ CatchBlock("generateVisualization", CompletionError,
                             behaviour, text, prompt, NoOutcome)
               /\ pending' = pending
          ELSE /\ setState("generating")
               /\ pending' = pending \cup {call}
               /\ last' = Did("generateVisualization",
                              [ Quiet EXCEPT !.promise = "pending",
                                             !.errorBox = hideError,
                                             !.input = text,
                                             !.prompt = prompt ])
       /\ UNCHANGED << lastGeneratedCode, activeHistoryIndex, history, storage,
                       iframe, srcdoc, dom, listening, hasOnError, storeWorks,
                       peer, fetches, config, waiters, toHost, toSandbox,
                       now >>

\* The try block without the test of the sanitized text
ThrownEmptyAccepted(outcome) ==
  CASE outcome.kind = "rejectError" -> CompletionError
    [] outcome.kind = "rejectValue" -> PlainValue
    [] outcome.kind = "nonText" -> NotTextError
    [] OTHER -> IF ~dom THEN DomError ELSE NoFault

\* What the awaited completion makes the rest of the try block throw, or
\* NoFault when it throws nothing.
Thrown(outcome) ==
  CASE outcome.kind = "rejectError" -> CompletionError
    [] outcome.kind = "rejectValue" -> PlainValue
    [] outcome.kind = "nonText" -> NotTextError
    [] OTHER ->
         LET htmlResponse == sanitizeHtmlResponse(outcome.text)
         IN  IF htmlResponse = <<>> \/ trim(htmlResponse) = <<>>
             THEN EmptyResponseError
             ELSE IF ~dom THEN DomError
             ELSE NoFault

\* generateVisualization after the await, for the call c.
CompletionSettles(c, outcome, behaviour, ts) ==
  /\ c \in pending
  /\ pending' = pending \ {c}
  /\ IF Thrown(outcome) # NoFault
     THEN /\ CatchBlock("completion", Thrown(outcome), behaviour, <<>>, <<>>,
                          outcome)
          /\ UNCHANGED << originalPrompt, improvementPrompts,
                          lastGeneratedCode, activeHistoryIndex, history,
                          storage, iframe, srcdoc, fetches, waiters, toHost,
                          toSandbox, now >>
     ELSE LET htmlResponse == sanitizeHtmlResponse(outcome.text)
              historyItem ==
                HistoryItem(IF originalPrompt # Null /\ originalPrompt # <<>>
                            THEN originalPrompt ELSE c.message,
                            htmlResponse, ts)
              replaces == c.isImprovement /\ activeHistoryIndex # NoIndex
          IN  /\ displayVisualization(htmlResponse)
              /\ lastGeneratedCode' = htmlResponse
              /\ now' = ts
              /\ history' =
                   IF replaces
                   THEN replaceHistory(history, activeHistoryIndex, historyItem)
                   ELSE saveHistory(history, historyItem)
              /\ storage' =
                   IF replaces /\ (activeHistoryIndex < 0
                                   \/ activeHistoryIndex >= Len(history))
                   THEN storage
                   ELSE setItem(JSONstringify(history'))
              /\ activeHistoryIndex' =
                   IF replaces THEN activeHistoryIndex ELSE 0
              /\ setState("displaying")
              /\ UNCHANGED << originalPrompt, improvementPrompts >>
              /\ last' = Did("completion",
                             [Quiet EXCEPT !.promise = "resolved",
                                           !.outcome = outcome,
                                           !.call = c])
  /\ UNCHANGED << dom, listening, hasOnError, storeWorks, peer, callsMade,
                  config >>

\* clearVisualization leaving the sandbox's content in place
EmptiedSandboxKept == srcdoc

\* if (this.iframe) { this.iframe.srcdoc = ''; }
EmptiedSandbox == IF iframe # "none" THEN <<>> ELSE srcdoc

\* public clearVisualization()
clearVisualization ==
  IF ~dom
  THEN \* visualizationDiv is null: the TypeError leaves the method
       /\ last' = Did("clearVisualization", [Quiet EXCEPT !.threw = TRUE])
       /\ UNCHANGED << state, uiState, originalPrompt, improvementPrompts,
                       lastGeneratedCode, activeHistoryIndex, history, storage,
                       iframe, srcdoc, dom, listening, hasOnError, storeWorks,
                       peer, pending, callsMade, fetches, config, waiters,
                       toHost, toSandbox, now >>
  ELSE /\ setState("idle")
       /\ srcdoc' = EmptiedSandbox
       /\ iframe' = "none"
       /\ lastGeneratedCode' = Null
       /\ activeHistoryIndex' = NoIndex
       /\ originalPrompt' = Null
       /\ improvementPrompts' = <<>>
       /\ last' = Did("clearVisualization",
                      [Quiet EXCEPT !.errorBox = hideError])
       /\ waiters' = <<>>
       /\ toSandbox' = <<>>
       /\ toHost' = Superseded(toHost)
       /\ fetches' = SupersededFetches(fetches)
       /\ UNCHANGED << history, storage, dom, listening, hasOnError,
                       storeWorks, peer, pending, callsMade, config, now >>

\* The click handler of the history list, for a click on entry index.
selectHistory(index) ==
  /\ dom
  /\ index >= 0 /\ index < Len(history)
  /\ LET item == history[index + 1]
     IN  /\ activeHistoryIndex' = index
         /\ displayVisualization(item.html)
         /\ originalPrompt' = item.prompt
         /\ improvementPrompts' = <<>>
         /\ lastGeneratedCode' = item.html
         /\ setState("displaying")
  /\ last' = Did("selectHistory", Quiet)
  /\ UNCHANGED << history, storage, dom, listening, hasOnError, storeWorks,
                  peer, pending, callsMade, config, now >>

\* private removeHistory(idx), from the click on an entry's Remove button
removeHistory(idx) ==
  /\ dom
  /\ idx >= 0 /\ idx < Len(history)
  /\ history' = Splice(history, idx)
  /\ storage' = setItem(JSONstringify(history'))
  /\ last' = Did("removeHistory", Quiet)
  /\ UNCHANGED << state, uiState, originalPrompt, improvementPrompts,
                  lastGeneratedCode, activeHistoryIndex, iframe, srcdoc, dom,
                  listening, hasOnError, storeWorks, peer, pending, callsMade,
                  fetches, config, waiters, toHost, toSandbox, now >>

\* private clearHistory(), from the click on the history's clear button
clearHistory ==
  /\ dom
  /\ history' = <<>>
  /\ activeHistoryIndex' = NoIndex
  /\ storage' = removeItem
  /\ last' = Did("clearHistory", Quiet)
  /\ UNCHANGED << state, uiState, originalPrompt, improvementPrompts,
                  lastGeneratedCode, iframe, srcdoc, dom, listening,
                  hasOnError, storeWorks, peer, pending, callsMade, fetches,
                  config, waiters, toHost, toSandbox, now >>

\* private sendMessageToIframe(message): what is in flight into the sandbox
\* afterwards
sendMessageToIframe(message) ==
  IF iframe # "none" THEN Append(toSandbox, message) ELSE toSandbox

\* The source test letting every window pass
FromAnyWindow(src) == TRUE

\* event.source === this.iframe?.contentWindow
FromOwnedSandbox(src) == src = "sandbox" /\ iframe # "none"

\* The window message listener, for the message event data that the window
\* src posted.  replaced remembers that the document that posted it is gone;
\* the listener has no means to know.
onMessage(src, data, behaviour, replaced) ==
  /\ listening
  /\ IF ~FromOwnedSandbox(src)
     THEN \* if (event.source !== this.iframe?.contentWindow) return
          /\ last' = Did("ignoredMessage",
                         [Quiet EXCEPT !.received = data, !.source = src])
          /\ UNCHANGED << state, uiState, fetches >>
     ELSE IF data = NullPayload
     THEN \* data.type throws out of the listener
          /\ last' = Did("nullMessage",
                         [Quiet EXCEPT !.received = data, !.source = src,
                                       !.threw = TRUE,
                                       !.thrown = NullDataError])
          /\ UNCHANGED << state, uiState, fetches >>
     ELSE IF data.type = "API_REQUEST" /\ data.requestId # "" /\ data.url # ""
     THEN \* handleApiRequest up to its await
          /\ fetches' = fetches \cup {[ requestId |-> data.requestId,
                                        url |-> data.url,
                                        superseded |-> replaced ]}
          /\ last' = Did("apiRequest",
                         [Quiet EXCEPT !.promise = "pending",
                                       !.received = data, !.source = src,
                                       !.fetched = data.url])
          /\ UNCHANGED << state, uiState >>
     ELSE IF data.type = "IFRAME_ERROR"
     THEN LET text == IF data.message # "" THEN data.message
                      ELSE "Visualization error"
          IN  /\ setState("error")
              /\ last' = Did("iframeError",
                   [ Quiet EXCEPT
                       !.received = data, !.source = src,
                       !.errorBox = showError(text),
                       !.onError = IF hasOnError
                                   THEN <<Fault("Error", "", text)>>
                                   ELSE <<>>,
                       !.threw = hasOnError /\ behaviour = "throws" ])
              /\ fetches' = fetches
     ELSE /\ last' = Did("unknownMessage",
                         [Quiet EXCEPT !.received = data, !.source = src])
          /\ UNCHANGED << state, uiState, fetches >>
  /\ UNCHANGED << originalPrompt, improvementPrompts, lastGeneratedCode,
                  activeHistoryIndex, history, storage, iframe, srcdoc, dom,
                  listening, hasOnError, storeWorks, peer, pending, callsMade,
                  config, waiters, toSandbox, now >>

\* The API_RESPONSE handleApiRequest sends for the fetch call f that settled
\* as outcome.  cause remembers the outcome and is no part of the message.
ApiResponse(f, outcome) ==
  CASE outcome.kind = "data" ->
         [ type |-> "API_RESPONSE", requestId |-> f.requestId,
           data |-> outcome.value, error |-> Undefined, cause |-> outcome ]
    [] outcome.kind = "rejectError" ->
         \* error instanceof Error ? error.message
         [ type |-> "API_RESPONSE", requestId |-> f.requestId,
           data |-> Undefined, error |-> outcome.value, cause |-> outcome ]
    [] OTHER ->
         \* : 'API request failed'
         [ type |-> "API_RESPONSE", requestId |-> f.requestId,
           data |-> Undefined, error |-> "API request failed",
           cause |-> outcome ]

\* handleApiRequest treating a rejecting fetch as a fault of the session
fetchSettlesAsSessionFault(f, outcome) ==
  /\ f \in fetches
  /\ fetches' = fetches \ {f}
  /\ toSandbox' = sendMessageToIframe(ApiResponse(f, outcome))
  /\ IF outcome.kind = "data"
     THEN /\ UNCHANGED << state, uiState >>
          /\ last' = Did("fetchSettles",
                         [ Quiet EXCEPT !.promise = "resolved",
                                        !.fetched = f.url,
                                        !.posted = ApiResponse(f, outcome) ])
     ELSE /\ setState("error")
          /\ last' = Did("fetchSettles",
                         [ Quiet EXCEPT
                             !.promise = "resolved",
                             !.fetched = f.url,
                             !.posted = ApiResponse(f, outcome),
                             !.errorBox = showError(outcome.value),
                             !.onError = <<Fault("Error", "", outcome.value)>> ])
  /\ UNCHANGED << originalPrompt, improvementPrompts, lastGeneratedCode,
                  activeHistoryIndex, history, storage, iframe, srcdoc, dom,
                  listening, hasOnError, storeWorks, peer, pending, callsMade,
                  config, waiters, toHost, now >>

\* private handleApiRequest(requestData) after its await
fetchSettles(f, outcome) ==
  /\ f \in fetches
  /\ fetches' = fetches \ {f}
  /\ toSandbox' = sendMessageToIframe(ApiResponse(f, outcome))
  /\ last' = Did("fetchSettles",
                 [ Quiet EXCEPT
                     !.promise = "resolved",
                     !.fetched = f.url,
                     !.posted = IF iframe # "none"
                                THEN ApiResponse(f, outcome) ELSE NoMessage ])
  /\ UNCHANGED << state, uiState, originalPrompt, improvementPrompts,
                  lastGeneratedCode, activeHistoryIndex, history, storage,
                  iframe, srcdoc, dom, listening, hasOnError, storeWorks, peer,
                  pending, callsMade, config, waiters, toHost, now >>

\* public destroy()
destroy ==
  /\ listening' = FALSE
  /\ dom' = FALSE
  /\ iframe' = "none"
  /\ srcdoc' = <<>>
  /\ waiters' = <<>>
  /\ toSandbox' = <<>>
  /\ toHost' = Superseded(toHost)
  /\ fetches' = SupersededFetches(fetches)
  /\ last' = Did("destroy", Quiet)
  /\ UNCHANGED << state, uiState, originalPrompt, improvementPrompts,
                  lastGeneratedCode, activeHistoryIndex, history, storage,
                  hasOnError, storeWorks, peer, pending, callsMade, config,
                  now >>

----------------------------------------------------------------------------
\* The bridge script in the sandbox document

\* if (d.error) ...: the value is truthy
Truthy(v) == v # "" /\ v # Undefined

\* The message listener taking every API_RESPONSE for its own
MessageHandlerAnyId(w, d) ==
  IF w.listening /\ d.type = "API_RESPONSE"
  THEN [ w EXCEPT
           !.listening = FALSE,
           !.status = IF Truthy(d.error) THEN "rejected" ELSE "resolved",
           !.value = IF Truthy(d.error) THEN d.error ELSE d.data ]
  ELSE w

\* The message listener that stays registered and takes the last response
MessageHandlerStaying(w, d) ==
  IF d.type = "API_RESPONSE" /\ d.requestId = w.id
  THEN [ w EXCEPT
           !.status = IF Truthy(d.error) THEN "rejected" ELSE "resolved",
           !.value = IF Truthy(d.error) THEN d.error ELSE d.data ]
  ELSE w

\* The message listener h of the call w of window.apiRequest, for the
\* message event data d: what becomes of the call.  A promise that is
\* settled stays as it is.
MessageHandler(w, d) ==
  IF w.listening /\ d.type = "API_RESPONSE" /\ d.requestId = w.id
  THEN [ w EXCEPT
           !.listening = FALSE,
           !.status = IF w.status # "pending" THEN @
                      ELSE IF Truthy(d.error) THEN "rejected" ELSE "resolved",
           !.value = IF w.status # "pending" THEN @
                     ELSE IF Truthy(d.error) THEN d.error ELSE d.data ]
  ELSE w

\* window.apiRequest(u) called by the code of the sandbox document; id is
\* the correlation id it draws.  One message of the sandbox is followed in
\* flight at a time: the message of the call before has reached the host.
apiRequest(u, id) ==
  /\ srcdoc # <<>>
  /\ Len(waiters) < MaxRequests
  /\ toHost = <<>>
  /\ waiters' = Append(waiters,
                       [ id |-> id, url |-> u, status |-> "pending",
                         value |-> Undefined, listening |-> TRUE,
                         timer |-> "armed" ])
  /\ toHost' = Append(toHost,
                      InFlight([ type |-> "API_REQUEST", message |-> "",
                                 requestId |-> id, url |-> u ]))
  /\ last' = Did("windowApiRequest",
                 [Quiet EXCEPT !.promise = "pending",
                               !.waiter = Len(waiters) + 1])
  /\ UNCHANGED << state, uiState, originalPrompt, improvementPrompts,
                  lastGeneratedCode, activeHistoryIndex, history, storage,
                  iframe, srcdoc, dom, listening, hasOnError, storeWorks, peer,
                  pending, callsMade, fetches, config, toSandbox, now >>

\* The message event d dispatched in the sandbox window: every listener
\* that is registered runs.
Dispatched(d) == [i \in DOMAIN waiters |-> MessageHandler(waiters[i], d)]

\* The message of the host that is first in flight reaches the sandbox.
sandboxReceives ==
  /\ toSandbox # <<>>
  /\ waiters' = Dispatched(Head(toSandbox))
  /\ toSandbox' = Tail(toSandbox)
  /\ last' = Did("sandboxReceives",
                 [Quiet EXCEPT !.delivered = Head(toSandbox)])
  /\ UNCHANGED << state, uiState, originalPrompt, improvementPrompts,
                  lastGeneratedCode, activeHistoryIndex, history, storage,
                  iframe, srcdoc, dom, listening, hasOnError, storeWorks, peer,
                  pending, callsMade, fetches, config, toHost, now >>

\* An API_RESPONSE that reaches the sandbox and that no fetch of the host
\* stands behind: a repeated one, or one some other window posted.
StrayResponses ==
  [ type : {"API_RESPONSE"}, requestId : RequestIds, data : {"stray"},
    error : {Undefined, "stray error"}, cause : {NoFetchOutcome} ]

strayResponse(d) ==
  /\ srcdoc # <<>>
  /\ waiters # <<>>
  /\ waiters' = Dispatched(d)
  /\ last' = Did("strayResponse", [Quiet EXCEPT !.delivered = d])
  /\ UNCHANGED << state, uiState, originalPrompt, improvementPrompts,
                  lastGeneratedCode, activeHistoryIndex, history, storage,
                  iframe, srcdoc, dom, listening, hasOnError, storeWorks, peer,
                  pending, callsMade, fetches, config, toHost, toSandbox,
                  now >>

\* The timer callback leaving the listener registered
TimerCallbackKeepsListener(w) ==
  [ w EXCEPT
      !.timer = "fired",
      !.status = IF w.status = "pending" THEN "rejected" ELSE @,
      !.value = IF w.status = "pending" THEN "API request timeout" ELSE @ ]

\* The callback of setTimeout(..., 3e4) of the call w: removeEventListener,
\* rej(new Error('API request timeout')); what becomes of the call.
TimerCallback(w) ==
  [ w EXCEPT
      !.timer = "fired",
      !.listening = FALSE,
      !.status = IF w.status = "pending" THEN "rejected" ELSE @,
      !.value = IF w.status = "pending" THEN "API request timeout" ELSE @ ]

\* The timer of call i runs out.  Timers of equal delay run in the order
\* they were set.
timerFires(i) ==
  /\ i \in DOMAIN waiters
  /\ waiters[i].timer = "armed"
  /\ \A j \in 1..(i - 1) : waiters[j].timer = "fired"
  /\ waiters' = [waiters EXCEPT ![i] = TimerCallback(@)]
  /\ last' = Did("timerFires", [Quiet EXCEPT !.waiter = i])
  /\ UNCHANGED << state, uiState, originalPrompt, improvementPrompts,
                  lastGeneratedCode, activeHistoryIndex, history, storage,
                  iframe, srcdoc, dom, listening, hasOnError, storeWorks, peer,
                  pending, callsMade, fetches, config, toHost, toSandbox,
                  now >>

\* The error and unhandledrejection listeners of the second bridge script:
\* code of the sandbox document fails with message, the listener posts the
\* fault report to the host.  One message of the sandbox is followed in
\* flight at a time.
errorListener(message) ==
  /\ srcdoc # <<>>
  /\ toHost = <<>>
  /\ toHost' = Append(toHost,
                      InFlight([ type |-> "IFRAME_ERROR", message |-> message,
                                 requestId |-> "", url |-> "" ]))
  /\ last' = Did("errorListener", Quiet)
  /\ UNCHANGED << state, uiState, originalPrompt, improvementPrompts,
                  lastGeneratedCode, activeHistoryIndex, history, storage,
                  iframe, srcdoc, dom, listening, hasOnError, storeWorks, peer,
                  pending, callsMade, fetches, config, waiters, toSandbox,
                  now >>

----------------------------------------------------------------------------
\* Message events at the host window

\* A message event at the host window after destroy() removed the listener.
unheard(src, data) ==
  /\ last' = Did("unheardMessage",
                 [Quiet EXCEPT !.received = data, !.source = src])
  /\ UNCHANGED << state, uiState, originalPrompt, improvementPrompts,
                  lastGeneratedCode, activeHistoryIndex, history, storage,
                  iframe, srcdoc, dom, listening, hasOnError, storeWorks, peer,
                  pending, callsMade, fetches, config, waiters, toSandbox,
                  now >>

\* The window src posts data to the host window, and it arrives.
windowPosts(src, data, behaviour) ==
  /\ IF listening THEN onMessage(src, data, behaviour, FALSE)
     ELSE unheard(src, data)
  /\ toHost' = toHost

\* The message of the sandbox that is first in flight reaches the host.
hostReceives(behaviour) ==
  /\ toHost # <<>>
  /\ IF listening
     THEN onMessage("sandbox", Head(toHost).data, behaviour,
                    Head(toHost).superseded)
     ELSE unheard("sandbox", Head(toHost).data)
  /\ toHost' = Tail(toHost)

\* Date.now() when the next history item is made: later than the last one.
Clock == {now + 1}

\* The messages that bear on the session: the sandbox's fault reports.
FaultReports == {d \in Messages : d.type = "IFRAME_ERROR"}

Next ==
  \/ \E text \in UserTexts, throws \in BOOLEAN, b \in OnErrorBehaviours :
       generateVisualization(text, throws, b)
  \/ \E c \in pending, o \in Outcomes, b \in OnErrorBehaviours, ts \in Clock :
       CompletionSettles(c, o, b, ts)
  \/ clearVisualization
  \/ \E i \in 0..(HistoryLimit - 1) : selectHistory(i)
  \/ \E i \in 0..(HistoryLimit - 1) : removeHistory(i)
  \/ clearHistory
  \/ \E d \in FaultReports, b \in OnErrorBehaviours :
       iframe # "none" /\ listening /\ windowPosts("sandbox", d, b)
  \/ destroy

Spec == Init /\ [][Next]_vars

----------------------------------------------------------------------------
\* The bridge between the sandbox and the host

\* The messages other windows post to the host, and the fault report of the
\* sandbox's error listener.
ForeignMessages ==
  {d \in Messages : d.requestId = "req_1" \/ d.message = "boom"}

\* The fetch outcomes that tell the host's paths apart: a payload, an Error.
PlainFetchOutcomes ==
  {o \in FetchOutcomes : o.kind # "rejectValue" /\ o.value # ""}

\* The host side.  The widget renders a history entry, is cleared and
\* destroyed; the code in the sandbox calls window.apiRequest; the sandbox
\* and other windows post messages to the host; fetch calls settle and their
\* responses reach the sandbox, each before the next is posted.
NextBridge ==
  \/ selectHistory(0)
  \/ clearVisualization
  \/ destroy
  \/ Len(waiters) < Len(Urls) /\ apiRequest(Urls[Len(waiters) + 1], "req_1")
  \/ errorListener("boom")
  \/ hostReceives("returns")
  \/ \E d \in ForeignMessages : windowPosts("other", d, "returns")
  \/ \E d \in FaultReports, b \in OnErrorBehaviours :
       d.message = "boom" /\ windowPosts("sandbox", d, b)
  \/ \E f \in fetches, o \in PlainFetchOutcomes :
       toSandbox = <<>> /\ fetchSettles(f, o)
  \/ sandboxReceives

\* The widget of the bridge's behaviours has an onError callback.
InitBridge == Init /\ hasOnError

SpecBridge == InitBridge /\ [][NextBridge]_vars

\* The sandbox side.  One document is rendered; its code calls
\* window.apiRequest; the host serves the requests; responses of the host
\* (each before the next is posted) and stray ones reach the sandbox and
\* timers run, in any order.
NextSandbox ==
  \/ iframe = "none" /\ selectHistory(0)
  \/ \E id \in RequestIds :
       Len(waiters) < Len(Urls) /\ apiRequest(Urls[Len(waiters) + 1], id)
  \/ hostReceives("returns")
  \/ \E f \in fetches, o \in FetchOutcomes :
       toSandbox = <<>> /\ fetchSettles(f, o)
  \/ sandboxReceives
  \/ \E d \in StrayResponses : strayResponse(d)
  \/ \E i \in 1..MaxRequests : timerFires(i)

SpecSandbox == InitBridge /\ [][NextSandbox]_vars

----------------------------------------------------------------------------
\* Construction

\* this.history.forEach is not a function / item.prompt is undefined
NoForEachError ==
  Fault("TypeError", "", "this.history.forEach is not a function")
NoSliceError == Fault("TypeError", "", "Cannot read properties of undefined")

\* private renderHistoryList(): what it throws, the list element being in
\* the container
renderHistoryList(h) ==
  IF h = NotAList THEN NoForEachError
  ELSE IF \E i \in DOMAIN h : h[i].prompt = Null THEN NoSliceError
  ELSE NoFault

\* What the store can hold when a widget is constructed.
StartupRecords ==
  {NoRecord, StoredAtStartup, CorruptRecord, NonListRecord, NoEntryRecord}

\* private resolveContainer(container): what it throws
resolveContainer(container) ==
  IF container = "selectorOfNothing" THEN ContainerNotFound ELSE NoFault

\* validateConfig that lets every configuration pass
validateConfigLax(cfg) == NoFault

\* private validateConfig(): what it throws
validateConfig(cfg) ==
  IF cfg.apiDescription = <<>> \/ cfg.apiDescription = Null
  THEN ApiDescriptionRequired
  ELSE IF cfg.chatCompletion # "function" THEN ChatCompletionNoFunction
  ELSE IF cfg.apiRequest # "function" THEN ApiRequestNoFunction
  ELSE NoFault

\* The page before new AIDataVisualization(config): the container holds
\* nothing of the widget, no listener is registered, the store holds what an
\* earlier session left.
InitPage ==
  /\ config \in Configs
  /\ hasOnError \in BOOLEAN
  /\ storeWorks = TRUE
  /\ peer = [history |-> <<>>]
  /\ storage \in StartupRecords
  /\ state = "idle"
  /\ uiState = "idle"
  /\ originalPrompt = Null
  /\ improvementPrompts = <<>>
  /\ lastGeneratedCode = Null
  /\ activeHistoryIndex = NoIndex
  /\ history = <<>>
  /\ iframe = "none"
  /\ srcdoc = <<>>
  /\ dom = FALSE
  /\ listening = FALSE
  /\ pending = {}
  /\ callsMade = 0
  /\ fetches = {}
  /\ waiters = <<>>
  /\ toHost = <<>>
  /\ toSandbox = <<>>
  /\ now = 0
  /\ last = Did("page", Quiet)

\* constructor(config): resolveContainer, validateConfig, initialize
construct ==
  /\ last.op = "page"
  /\ LET unresolved == resolveContainer(config.container)
         invalid == validateConfig(config)
         thrown == IF unresolved # NoFault THEN unresolved ELSE invalid
     IN  IF thrown # NoFault
         THEN /\ last' = Did("constructor",
                             [Quiet EXCEPT !.threw = TRUE, !.thrown = thrown])
              /\ UNCHANGED << history, dom, listening >>
         ELSE \* initialize(): loadHistory, createHTML, setupMessageListener,
              \* renderHistoryList
              /\ history' = loadHistory(storage)
              /\ dom' = TRUE
              /\ listening' = TRUE
              /\ last' =
                   IF renderHistoryList(history') # NoFault
                   THEN Did("constructor",
                            [Quiet EXCEPT
                               !.threw = TRUE,
                               !.thrown = renderHistoryList(history')])
                   ELSE Did("constructor", Quiet)
  /\ UNCHANGED << state, uiState, originalPrompt, improvementPrompts,
                  lastGeneratedCode, activeHistoryIndex, storage, iframe,
                  srcdoc, hasOnError, storeWorks, peer, pending, callsMade,
                  fetches, config, waiters, toHost, toSandbox, now >>

NextConstruct == construct

SpecConstruct == InitPage /\ [][NextConstruct]_vars

----------------------------------------------------------------------------
\* The history store filled from empty

\* The prompts of the items that are inserted.
Prompts == {<<"a">>, <<"b">>}

\* A widget constructed over an empty store.
InitEmptyStore == Constructed(NoRecord)

\* A call of saveHistory(item): the item goes into the list and the list
\* into the store.  The timestamp of the n-th item inserted is n.
saveHistoryCall(p, ts) ==
  /\ now < MaxInserts
  /\ history' = saveHistory(history, HistoryItem(p, Document, ts))
  /\ storage' = setItem(JSONstringify(history'))
  /\ now' = ts
  /\ last' = Did("saveHistory", [Quiet EXCEPT !.input = p])
  /\ UNCHANGED << state, uiState, originalPrompt, improvementPrompts,
                  lastGeneratedCode, activeHistoryIndex, iframe, srcdoc, dom,
                  listening, hasOnError, storeWorks, peer, pending, callsMade,
                  fetches, config, waiters, toHost, toSandbox >>

NextHistory == \E p \in Prompts, ts \in Clock : saveHistoryCall(p, ts)

SpecHistory == InitEmptyStore /\ [][NextHistory]_vars

----------------------------------------------------------------------------
\* The sanitizer on the outputs of a generator

\* Length of the artifacts a generator is given to answer with.
MaxArtifact == 3

\* All texts of at most n tokens of S
TextsOver(S, n) == UNION {[1..k -> S] : k \in 0..n}

\* The artifacts: texts of letters, the word html and whitespace that neither
\* start nor end in whitespace.
Artifacts ==
  {a \in TextsOver({"x", "html", " "}, MaxArtifact) : a # <<>> /\ trim(a) = a}

\* The three backticks of a fence
Fence == <<"bt", "bt", "bt">>

\* The ways a generator wraps the artifact a: a leading fence, plain or tagged
\* html, and a trailing fence, each set off from a by whitespace or not.
Wrappings(a) ==
  { lead \o before \o a \o after \o Fence :
      lead \in {Fence, Fence \o <<"html">>},
      before \in {<<>>, <<" ">>}, after \in {<<>>, <<" ">>} }

\* What the completion resolves to: an artifact as it is, an artifact
\* wrapped, a wrapped artifact behind one more fence.
RawTexts ==
  Artifacts
    \cup UNION {Wrappings(a) : a \in Artifacts}
    \cup UNION {{Fence \o <<" ">> \o w : w \in Wrappings(a)} : a \in Artifacts}

\* One generation on a widget that holds nothing: the user submits, the
\* completion resolves to a raw text, generateVisualization sanitizes it and
\* holds the result.
NextSanitize ==
  \/ callsMade = 0 /\ generateVisualization(<<"a">>, FALSE, "returns")
  \/ \E c \in pending, raw \in RawTexts, ts \in Clock :
       CompletionSettles(c, [kind |-> "text", text |-> raw], "returns", ts)

SpecSanitize == InitEmptyStore /\ [][NextSanitize]_vars

----------------------------------------------------------------------------
\* Two widgets on one page

\* Number of generations of the second widget that are followed.
MaxPeerSaves == 2

\* A generation of the second widget completes: its saveHistory(item) puts
\* the item into its own list and writes the list under HISTORY_KEY, which
\* is 'aiDataVizHistory' for every instance.
peerSaves(p, ts) ==
  /\ now < MaxPeerSaves + callsMade
  /\ peer' = [peer EXCEPT
               !.history = saveHistory(@, HistoryItem(p, Document, ts))]
  /\ storage' = setItem(JSONstringify(peer'.history))
  /\ now' = ts
  /\ last' = Did("peerSaves", [Quiet EXCEPT !.input = p])
  /\ UNCHANGED << state, uiState, originalPrompt, improvementPrompts,
                  lastGeneratedCode, activeHistoryIndex, history, iframe,
                  srcdoc, dom, listening, hasOnError, storeWorks, pending,
                  callsMade, fetches, config, waiters, toHost, toSandbox >>

\* The page is loaded anew and the second widget constructed again: its
\* loadHistory() reads the record under HISTORY_KEY.
peerReloads ==
  /\ peer' = [peer EXCEPT !.history = loadHistory(storage)]
  /\ last' = Did("peerReloads", Quiet)
  /\ UNCHANGED << state, uiState, originalPrompt, improvementPrompts,
                  lastGeneratedCode, activeHistoryIndex, history, storage,
                  iframe, srcdoc, dom, listening, hasOnError, storeWorks,
                  pending, callsMade, fetches, config, waiters, toHost,
                  toSandbox, now >>

\* The documents the completions of the first widget resolve to, and a
\* rejection.
PlainOutcomes ==
  {o \in Outcomes : o.kind = "rejectError" \/ o.text = Document}

\* The operations of the first widget and of the second, in any order.
NextTwo ==
  \/ generateVisualization(<<" ", "a", " ">>, FALSE, "returns")
  \/ \E c \in pending, o \in PlainOutcomes, ts \in Clock :
       CompletionSettles(c, o, "returns", ts)
  \/ clearVisualization
  \/ \E i \in 0..(HistoryLimit - 1) : selectHistory(i)
  \/ \E i \in 0..(HistoryLimit - 1) : removeHistory(i)
  \/ clearHistory
  \/ destroy
  \/ \E ts \in Clock : peerSaves(<<"p">>, ts)
  \/ peerReloads

\* Two widgets constructed over an empty store, the first with an onError
\* callback.
InitTwo == InitEmptyStore /\ hasOnError

SpecTwo == InitTwo /\ [][NextTwo]_vars

----------------------------------------------------------------------------
\* The durable store failing

\* localStorage starts or stops throwing on writes: the quota is reached or
\* freed, the storage is switched off or on.
storeTurns ==
  /\ storeWorks' = ~storeWorks
  /\ last' = Did("storeTurns", Quiet)
  /\ UNCHANGED << state, uiState, originalPrompt, improvementPrompts,
                  lastGeneratedCode, activeHistoryIndex, history, storage,
                  iframe, srcdoc, dom, listening, hasOnError, peer, pending,
                  callsMade, fetches, config, waiters, toHost, toSandbox,
                  now >>

\* Generations, history selection, removal and clearing over a store that
\* fails at times.
NextStore ==
  \/ generateVisualization(<<" ", "a", " ">>, FALSE, "returns")
  \/ \E c \in pending, o \in PlainOutcomes, ts \in Clock :
       CompletionSettles(c, o, "returns", ts)
  \/ \E i \in 0..(HistoryLimit - 1) : selectHistory(i)
  \/ \E i \in 0..(HistoryLimit - 1) : removeHistory(i)
  \/ clearHistory
  \/ storeTurns

SpecStore == InitBridge /\ [][NextStore]_vars

----------------------------------------------------------------------------
\* The bridge injection on the documents of a generator

\* Number of parts a generated document is made of.
MaxParts == 3

\* The parts: text, a script element, the closing head marker in lower and
\* in upper case, an opening body tag with and without its '>', a capital I
\* with dot.
Parts ==
  { <<"x">>, <<"SCRIPT">>, HeadClose, <<"<", "/", "H", "E", "A", "D", ">">>,
    BodyOpen \o <<">">>, BodyOpen, <<"U+0130">> }

\* All concatenations of at most n parts
RECURSIVE Composed(_)
Composed(n) ==
  IF n = 0 THEN {<<>>}
  ELSE Composed(n - 1) \cup {d \o q : d \in Composed(n - 1), q \in Parts}

\* The documents a completion resolves to
Documents == Composed(MaxParts)

\* One generation on a widget that holds nothing: the completion resolves
\* to a document, which is rendered, and the user renders it once more from
\* the history.
NextInject ==
  \/ callsMade = 0 /\ generateVisualization(<<"a">>, FALSE, "returns")
  \/ \E c \in pending, d \in Documents, ts \in Clock :
       CompletionSettles(c, [kind |-> "text", text |-> d], "returns", ts)
  \/ selectHistory(0)

SpecInject == InitEmptyStore /\ [][NextInject]_vars

----------------------------------------------------------------------------
\* The record in the store and the history in memory

\* Number of replaceHistory calls that are followed.
MaxReplaces == 2

\* A call of replaceHistory(idx, item), as the completion of an improvement
\* of the active entry idx makes it.
replaceHistoryCall(idx, p, ts) ==
  /\ now < MaxReplaces + callsMade
  /\ history' = replaceHistory(history, idx, HistoryItem(p, OtherDocument, ts))
  /\ storage' = IF idx < 0 \/ idx >= Len(history) THEN storage
                ELSE setItem(JSONstringify(history'))
  /\ now' = ts
  /\ last' = Did("replaceHistory", [Quiet EXCEPT !.input = p])
  /\ UNCHANGED << state, uiState, originalPrompt, improvementPrompts,
                  lastGeneratedCode, activeHistoryIndex, iframe, srcdoc, dom,
                  listening, hasOnError, storeWorks, peer, pending, callsMade,
                  fetches, config, waiters, toHost, toSandbox >>

\* The widget is constructed over a store without record, with the record
\* of an earlier session or with a record that is no JSON.
InitRecord ==
  \E record \in {NoRecord, StoredAtStartup, CorruptRecord} :
    Constructed(record) /\ hasOnError

\* Every mutation of the history: insertion by a generation, replacement,
\* removal, clearing, over a store that fails at times.
NextRecord ==
  \/ generateVisualization(<<" ", "a", " ">>, FALSE, "returns")
  \/ \E c \in pending, o \in PlainOutcomes, ts \in Clock :
       CompletionSettles(c, o, "returns", ts)
  \/ \E idx \in 0..Len(history), ts \in Clock :
       replaceHistoryCall(idx, <<"r">>, ts)
  \/ \E i \in 0..(HistoryLimit - 1) : removeHistory(i)
  \/ clearHistory
  \/ storeTurns

SpecRecord == InitRecord /\ [][NextRecord]_vars

----------------------------------------------------------------------------
\* Generations that overlap

\* The requests the user submits, one after the other or one while the
\* other is awaited.
Requests == {<<"a">>, <<"b">>}

\* How the completions settle: with one document, with the other, with a
\* rejection.
OverlapOutcomes ==
  { [kind |-> "text", text |-> Document],
    [kind |-> "text", text |-> OtherDocument],
    [kind |-> "rejectError", text |-> Null] }

\* The public operation is called whatever the state; completions settle in
\* any order; in between the user selects and removes history entries and
\* clears the visualization.
NextOverlap ==
  \/ \E text \in Requests : generateVisualization(text, FALSE, "returns")
  \/ \E c \in pending, o \in OverlapOutcomes, ts \in Clock :
       CompletionSettles(c, o, "returns", ts)
  \/ \E i \in 0..(HistoryLimit - 1) : selectHistory(i)
  \/ \E i \in 0..(HistoryLimit - 1) : removeHistory(i)
  \/ clearVisualization

SpecOverlap == InitBridge /\ [][NextOverlap]_vars

----------------------------------------------------------------------------
\* Messages of no known shape

\* The widget generates, renders and is cleared, and the document in the
\* sandbox posts messages of no known shape and fault reports.
NextShapes ==
  \/ generateVisualization(<<" ", "a", " ">>, FALSE, "returns")
  \/ \E c \in pending, o \in PlainOutcomes, ts \in Clock :
       CompletionSettles(c, o, "returns", ts)
  \/ \E i \in 0..(HistoryLimit - 1) : selectHistory(i)
  \/ clearVisualization
  \/ \E d \in UnknownShapes \cup FaultReports, b \in OnErrorBehaviours :
       iframe # "none" /\ windowPosts("sandbox", d, b)

SpecShapes == InitBridge /\ [][NextShapes]_vars

----------------------------------------------------------------------------
\* Generations whose completion settles

\* A completion that is awaited settles, with a document or a rejection.
completionSettles ==
  \E c \in pending, o \in PlainOutcomes, ts \in Clock :
    CompletionSettles(c, o, "returns", ts)

\* The user submits (the completion callback may throw at once), selects
\* history entries and clears; the sandbox reports faults; completions
\* settle.
NextLive ==
  \/ \E throws \in BOOLEAN :
       generateVisualization(<<" ", "a", " ">>, throws, "returns")
  \/ completionSettles
  \/ \E i \in 0..(HistoryLimit - 1) : selectHistory(i)
  \/ clearVisualization
  \/ \E d \in FaultReports :
       iframe # "none" /\ windowPosts("sandbox", d, "returns")

\* Every completion that is awaited settles in the end.
SpecLive == InitBridge /\ [][NextLive]_vars /\ WF_vars(completionSettles)

----------------------------------------------------------------------------
\* Vocabulary of the properties

\* sub occurs in s as it stands
Contains(s, sub) ==
  \E i \in 0..(Len(s) - Len(sub)) : SubSeq(s, i + 1, i + Len(sub)) = sub

IsFreshPrompt(p) == p # <<>> /\ Head(p) = "FRESH: USER REQUEST"
IsImprovementPrompt(p) == p # <<>> /\ Head(p) = "IMPROVE: AVAILABLE API ENDPOINTS"

\* The last operation was a generateVisualization call that reached the
\* completion callback.
Submitted == last.op = "generateVisualization" /\ last.prompt # <<>>

\* The last operation resumed a generateVisualization call from a completion
\* that resolved to text whose sanitized form is not empty, DOM in place.
Succeeded ==
  /\ last.op = "completion"
  /\ last.outcome.kind = "text"
  /\ sanitizeHtmlResponse(last.outcome.text) # <<>>
  /\ dom

\* The last operation resumed a generateVisualization call from a completion
\* that rejected or resolved to no usable text, DOM in place.
Failed ==
  /\ last.op = "completion"
  /\ \/ last.outcome.kind \in {"rejectError", "rejectValue", "nonText"}
     \/ /\ last.outcome.kind = "text"
        /\ trim(sanitizeHtmlResponse(last.outcome.text)) = <<>>
  /\ dom

\* The last operation was the report of a fault by the sandbox.
FaultReported == last.op = "iframeError"

\* The conversation context is what it was before the last operation.
ContextKept ==
  /\ originalPrompt = last.pre.originalPrompt
  /\ improvementPrompts = last.pre.improvementPrompts
  /\ lastGeneratedCode = last.pre.lastGeneratedCode

\* The history, in memory and in the store, is what it was before the last
\* operation.
HistoryKept ==
  /\ history = last.pre.history
  /\ storage = last.pre.storage

----------------------------------------------------------------------------
\* C1: after generateVisualization with non-empty text on an idle widget
\* getState() is 'generating' while the completion is awaited, and it is
\* 'displaying' once the completion has resolved to text whose sanitized form
\* is not empty.
C1_StateFollowsGeneration ==
  /\ (Submitted /\ last.promise = "pending" /\ last.pre.state = "idle")
       => state = "generating"
  /\ Succeeded => state = "displaying"

\* C2: when the completion rejects or resolves to text that is empty after
\* sanitization, the state becomes 'error', a configured onError is called
\* exactly once with the fault (the 'AI returned empty response' fault in
\* the empty case) and the history, in memory and persisted, is unchanged.
C2_FailureEntersError ==
  Failed =>
    /\ state = "error"
    /\ hasOnError => Len(last.onError) = 1
    /\ (hasOnError /\ last.outcome.kind = "text")
         => last.onError = <<EmptyResponseError>>
    /\ (hasOnError /\ last.outcome.kind = "rejectError")
         => last.onError = <<CompletionError>>
    /\ HistoryKept

\* C3: a non-empty input submitted while the session displays an artifact it
\* holds goes to the completion callback in the improvement template, which
\* contains the whole held artifact and the whole request history (original
\* prompt, every improvement prompt so far, the new one, joined by newlines).
C3_ImprovementPromptWhenDisplaying ==
  (Submitted /\ last.pre.lastGeneratedCode # Null
     /\ (last.pre.state = "displaying" \/ last.pre.uiState = "displaying"))
    => /\ IsImprovementPrompt(last.prompt)
       /\ Contains(last.prompt, last.pre.lastGeneratedCode)
       /\ Contains(last.prompt,
                   Join(Kept(last.pre.originalPrompt,
                             Append(last.pre.improvementPrompts,
                                    trim(last.input)))))

\* C4: a non-empty input submitted while the state is 'idle' or 'error' and
\* no artifact is held goes to the completion callback in the fresh
\* template, which contains the user text and the API description and no
\* section for a prior artifact.
C4_FreshPromptWithoutArtifact ==
  (Submitted /\ last.pre.state \in {"idle", "error"}
     /\ last.pre.lastGeneratedCode = Null)
    => /\ IsFreshPrompt(last.prompt)
       /\ Contains(last.prompt, trim(last.input))
       /\ Contains(last.prompt, apiDescription)
       /\ ~Contains(last.prompt, <<"EXISTING VISUALIZATION CODE START">>)

\* C4 witness: a first submission after a failed one, no artifact held, sent
\* in the fresh template.
C4_Witness ==
  /\ Submitted
  /\ last.pre.state = "idle"
  /\ last.pre.uiState = "error"
  /\ last.pre.lastGeneratedCode = Null
  /\ IsFreshPrompt(last.prompt)

\* C5: a submission is an improvement only if an artifact is held and the
\* state is 'displaying'; every other submission is a fresh generation that
\* makes the submitted text the original prompt and empties the list of
\* improvement prompts.
C5_ImprovementOnlyWhenDisplaying ==
  Submitted =>
    /\ IsImprovementPrompt(last.prompt)
         => (last.pre.lastGeneratedCode # Null /\ last.pre.state = "displaying")
    /\ ~(last.pre.lastGeneratedCode # Null /\ last.pre.state = "displaying")
         => /\ last.prompt = buildVisualizationPrompt(trim(last.input))
            /\ originalPrompt = trim(last.input)
            /\ improvementPrompts = <<>>

\* C5 witness: a submission made with an artifact held and the state not
\* 'displaying', sent as a fresh generation.
C5_Witness ==
  /\ Submitted
  /\ last.pre.lastGeneratedCode # Null
  /\ last.pre.state = "idle"
  /\ last.pre.originalPrompt # trim(last.input)
  /\ IsFreshPrompt(last.prompt)
  /\ originalPrompt = trim(last.input)

\* C6 as stated: entering 'error' keeps the conversation context, and a
\* submission made from 'error' with a prior artifact held is processed as
\* an improvement of that artifact.
C6_RetryFromErrorImproves ==
  /\ (Failed \/ FaultReported) => ContextKept
  /\ (Submitted /\ last.pre.lastGeneratedCode # Null
        /\ (last.pre.state = "error" \/ last.pre.uiState = "error"))
       => /\ IsImprovementPrompt(last.prompt)
          /\ Contains(last.prompt, last.pre.lastGeneratedCode)

\* C6 as amended: entering 'error', through a failed generation or a fault
\* report of the sandbox, keeps the conversation context (original prompt,
\* improvement prompts, held artifact); a submission made from 'error' is a
\* fresh generation also when a prior artifact is held: the submitted text
\* becomes the original prompt, the improvement prompts are emptied and the
\* prompt carries no artifact.
C6_ErrorKeepsContextRetryIsFresh ==
  /\ (Failed \/ FaultReported) => ContextKept
  /\ (Submitted /\ (last.pre.state = "error" \/ last.pre.uiState = "error"))
       => /\ last.prompt = buildVisualizationPrompt(trim(last.input))
          /\ originalPrompt = trim(last.input)
          /\ improvementPrompts = <<>>
          /\ lastGeneratedCode = last.pre.lastGeneratedCode

\* C6 witness: the session entered 'error' with an artifact held, and the
\* next submission went out in the fresh template.
C6_Witness ==
  /\ Submitted
  /\ last.pre.uiState = "error"
  /\ last.pre.lastGeneratedCode # Null
  /\ IsFreshPrompt(last.prompt)
  /\ lastGeneratedCode # Null

\* C7: clearVisualization moves the session to 'idle' from any state,
\* discards the conversation context, sets the active history selection to
\* none and tears the sandbox down to empty content with no owned context;
\* the history entries are unchanged.
C7_ClearResets ==
  (last.op = "clearVisualization" /\ ~last.threw) =>
    /\ state = "idle"
    /\ uiState = "idle"
    /\ lastGeneratedCode = Null
    /\ originalPrompt = Null
    /\ improvementPrompts = <<>>
    /\ activeHistoryIndex = NoIndex
    /\ srcdoc = <<>>
    /\ iframe = "none"
    /\ HistoryKept

\* C7 witness: clearVisualization ran on a session that displayed a held
\* artifact of a selected history entry in its sandbox.
C7_Witness ==
  /\ last.op = "clearVisualization"
  /\ ~last.threw
  /\ last.pre.uiState = "displaying"
  /\ last.pre.lastGeneratedCode # Null
  /\ last.pre.activeHistoryIndex # NoIndex
  /\ last.pre.iframe = "frame"
  /\ last.pre.srcdoc # <<>>
  /\ history # <<>>
  /\ srcdoc = <<>>

\* C8: selecting the history entry at a valid index i moves the state to
\* 'displaying' in one step and with no completion call; afterwards the
\* active index is i, the original prompt is entry i's prompt, the list of
\* improvement prompts is empty and the held artifact is entry i's artifact.
C8_SelectionDisplays ==
  last.op = "selectHistory" =>
    /\ state = "displaying"
    /\ activeHistoryIndex >= 0 /\ activeHistoryIndex < Len(history)
    /\ originalPrompt = history[activeHistoryIndex + 1].prompt
    /\ lastGeneratedCode = history[activeHistoryIndex + 1].html
    /\ improvementPrompts = <<>>
    /\ pending = last.pre.pending
    /\ callsMade = last.pre.callsMade

\* C9: the promise generateVisualization returns resolves and never
\* rejects, whatever the completion callback and the onError callback do,
\* and the promise of a fetch that rejects is not rejected either.
C9_PromisesNeverReject ==
  (dom /\ last.op \in {"generateVisualization", "completion", "fetchSettles"})
    => last.promise # "rejected"

\* C10: generateVisualization with empty or whitespace-only text shows a
\* message and does nothing else: no completion call, and state,
\* conversation context, sandbox and history are unchanged.
C10_BlankInputOnlyShowsMessage ==
  (last.op = "generateVisualization" /\ trim(last.input) = <<>> /\ dom) =>
    /\ last.errorBox = "Please enter a visualization request"
    /\ last.promise = "resolved"
    /\ last.prompt = <<>>
    /\ last.onError = <<>>
    /\ callsMade = last.pre.callsMade
    /\ pending = last.pre.pending
    /\ state = last.pre.state
    /\ uiState = last.pre.uiState
    /\ ContextKept
    /\ activeHistoryIndex = last.pre.activeHistoryIndex
    /\ iframe = last.pre.iframe
    /\ srcdoc = last.pre.srcdoc
    /\ HistoryKept

\* C10 witness: generateVisualization read whitespace-only text on a session
\* that held an artifact while a completion was awaited.
C10_Witness ==
  /\ last.op = "generateVisualization"
  /\ last.input = <<" ">>
  /\ dom
  /\ last.errorBox = "Please enter a visualization request"
  /\ lastGeneratedCode # Null
  /\ pending # {}

\* C17: an IFRAME_ERROR message from the owned sandbox moves the state to
\* 'error', puts the carried message into the error box (the text
\* 'Visualization error' when it carries none), and calls a configured
\* onError exactly once with an Error of that message; conversation context,
\* active index and history are unchanged.
C17_FaultReportEntersError ==
  FaultReported =>
    LET text == IF last.received.message # "" THEN last.received.message
                ELSE "Visualization error"
    IN  /\ last.source = "sandbox"
        /\ last.pre.iframe # "none"
        /\ state = "error"
        /\ last.errorBox = text
        /\ last.onError = IF hasOnError THEN <<Fault("Error", "", text)>>
                          ELSE <<>>
        /\ ContextKept
        /\ activeHistoryIndex = last.pre.activeHistoryIndex
        /\ HistoryKept

\* C18: from an empty store, after n insertions the history holds
\* min(n, 10) entries, which are the n-th, (n-1)-th, ... item inserted in
\* this order (newest first); each insertion puts its item in front of the
\* entries held before and drops what exceeds ten, and the store holds the
\* same list.  (Under SpecHistory; now is the number of insertions.)
C18_HistoryKeepsTenNewest ==
  /\ Len(history) = (IF now < 10 THEN now ELSE 10)
  /\ \A i \in 1..Len(history) : history[i].timestamp = now - i + 1
  /\ last.op = "saveHistory" =>
       /\ history[1] = HistoryItem(last.input, Document, now)
       /\ Tail(history) = SubSeq(last.pre.history, 1, Len(history) - 1)
       /\ storage = JSONstringify(history)

\* C18 witness: the eleventh insertion evicted the first item and left the
\* ten inserted last.
C18_Witness ==
  /\ last.op = "saveHistory"
  /\ now = 11
  /\ Len(last.pre.history) = 10
  /\ last.pre.history[10].timestamp = 1
  /\ Len(history) = 10
  /\ history[10].timestamp = 2
  /\ history[1].timestamp = 11

\* The history item a successful completion writes: the original prompt of
\* the conversation (the submitted text when there is none), the sanitized
\* output, the time of writing.
WrittenItem ==
  HistoryItem(IF last.pre.originalPrompt # Null /\ last.pre.originalPrompt # <<>>
              THEN last.pre.originalPrompt ELSE last.call.message,
              sanitizeHtmlResponse(last.outcome.text), now)

\* C19: when a generation succeeds that was submitted as an improvement
\* (the widget displayed an artifact it held) and an active history index is
\* set that has an entry, the entry at that index is replaced in place, the
\* length of the history and its other entries unchanged; a successful
\* generation that was no improvement, or that finds no active index set,
\* inserts a new entry at index 0, which becomes the active one.
C19_ImprovementReplacesInPlace ==
  Succeeded =>
    /\ ( /\ last.call.displayed
         /\ last.pre.activeHistoryIndex # NoIndex
         /\ last.pre.activeHistoryIndex < Len(last.pre.history) )
         => /\ history = [ last.pre.history EXCEPT
                             ![last.pre.activeHistoryIndex + 1] = WrittenItem ]
            /\ activeHistoryIndex = last.pre.activeHistoryIndex
    /\ (~last.call.displayed \/ last.pre.activeHistoryIndex = NoIndex)
         => /\ history = saveHistory(last.pre.history, WrittenItem)
            /\ history[1] = WrittenItem
            /\ activeHistoryIndex = 0

\* The last operation completed with success a fresh generation that was
\* submitted on an empty history, no other call being awaited then and no
\* other submission having been made since.
FreshOnEmptyHistory ==
  /\ Succeeded
  /\ ~last.call.displayed
  /\ last.call.onEmpty
  /\ last.call.id = last.pre.callsMade

\* C20: after a successful fresh generation on an empty history, with user
\* text t and completion output c, the history holds exactly one entry; its
\* prompt is t (trimmed), its artifact is c with the fences stripped (the
\* bare document when c is the document in a tagged fence), and the held
\* artifact is that same text; the store holds the same one entry.
C20_FirstGenerationMakesOneEntry ==
  FreshOnEmptyHistory =>
    /\ Len(history) = 1
    /\ history[1].prompt = last.call.message
    /\ history[1].prompt # <<>>
    /\ history[1].html = sanitizeHtmlResponse(last.outcome.text)
    /\ (last.outcome.text \in {Document,
                                 <<"bt", "bt", "bt", "html", " ">> \o Document
                                   \o <<" ", "bt", "bt", "bt">>})
         => history[1].html = Document
    /\ lastGeneratedCode = history[1].html
    /\ storage = JSONstringify(history)

\* C20 witness: a fresh generation on an empty history whose completion
\* resolved to the document in a tagged fence, leaving one entry with the
\* trimmed user text and the bare document.
C20_Witness ==
  /\ FreshOnEmptyHistory
  /\ last.outcome.text # Document
  /\ history = <<HistoryItem(<<"a">>, Document, now)>>
  /\ lastGeneratedCode = Document

\* The configuration lacks what construction requires.
ConfigRefused ==
  \/ config.container = "selectorOfNothing"
  \/ config.apiDescription \in {<<>>, Null}
  \/ config.chatCompletion # "function"
  \/ config.apiRequest # "function"

MessageArrived ==
  last.op \in { "ignoredMessage", "unheardMessage", "unknownMessage",
                "apiRequest", "iframeError" }

\* The last operation left the widget as it was and called nothing.
NothingDone ==
  /\ fetches = last.pre.fetches
  /\ last.fetched = ""
  /\ last.onError = <<>>
  /\ last.errorBox = Untouched
  /\ ~last.threw
  /\ state = last.pre.state
  /\ uiState = last.pre.uiState
  /\ ContextKept
  /\ activeHistoryIndex = last.pre.activeHistoryIndex
  /\ HistoryKept
  /\ iframe = last.pre.iframe
  /\ srcdoc = last.pre.srcdoc
  /\ toSandbox = last.pre.toSandbox

\* C12: the host acts on a message only if its source is the sandbox it
\* owns at that moment; a message of another window, and every message that
\* arrives while no sandbox is owned (before the first render, after
\* clearVisualization, after destroy), starts no fetch, changes no state and
\* calls no onError.  (Under SpecBridge.)
C12_OnlyOwnedSandboxIsHeard ==
  MessageArrived =>
    /\ (last.source # "sandbox" \/ last.pre.iframe = "none") => NothingDone
    /\ last.op \in {"apiRequest", "iframeError"}
         => (last.source = "sandbox" /\ last.pre.iframe # "none")

\* C12 witness: a request of the sandbox that was in flight when
\* clearVisualization gave the sandbox up arrived and was ignored.
C12_Witness ==
  /\ last.op = "ignoredMessage"
  /\ last.source = "sandbox"
  /\ last.received.type = "API_REQUEST"
  /\ last.pre.toHost # <<>>
  /\ last.pre.iframe = "none"
  /\ listening
  /\ dom
  /\ fetches = {}

\* The last operation dispatched a response of the host in the sandbox, and
\* call i listened for it.
HostResponseSettled(i) ==
  /\ last.op = "sandboxReceives"
  /\ i \in DOMAIN last.pre.waiters
  /\ last.pre.waiters[i].listening
  /\ last.pre.waiters[i].id = last.delivered.requestId

\* C13: the host calls the fetch callback with the URL of the data-access
\* call; when the fetch resolves with payload p the call's promise resolves
\* with p, and when it rejects the promise rejects with the text of the
\* rejection: the message of an Error, also an empty one, and the string of
\* a value that is no Error.  (Under SpecSandbox.)
C13_FetchOutcomeReachesTheCall ==
  /\ last.op = "apiRequest" =>
       /\ last.fetched = last.received.url
       /\ \E i \in DOMAIN waiters :
            /\ waiters[i].id = last.received.requestId
            /\ waiters[i].url = last.fetched
  /\ \A i \in DOMAIN waiters :
       HostResponseSettled(i) =>
         IF last.delivered.cause.kind = "data"
         THEN /\ waiters[i].status = "resolved"
              /\ waiters[i].value = last.delivered.cause.value
         ELSE /\ waiters[i].status = "rejected"
              /\ waiters[i].value = last.delivered.cause.value

\* The calls of window.apiRequest of the document drew distinct ids.
DistinctIds(ws) ==
  \A i, j \in DOMAIN ws : i # j => ws[i].id # ws[j].id

\* The last operation dispatched an API_RESPONSE in the sandbox.
ResponseDispatched == last.op \in {"sandboxReceives", "strayResponse"}

\* C14: with calls outstanding under distinct correlation ids, and the
\* fetches completing in any order, an API_RESPONSE settles the call whose
\* id it carries and leaves every other call as it was, a pending one
\* pending.  (Under SpecSandbox.)
C14_ResponseSettlesItsWaiterOnly ==
  (ResponseDispatched /\ DistinctIds(last.pre.waiters)) =>
    \A i \in DOMAIN last.pre.waiters :
      IF last.pre.waiters[i].id = last.delivered.requestId
      THEN last.pre.waiters[i].listening
             => (waiters[i].status # "pending" /\ ~waiters[i].listening)
      ELSE waiters[i] = last.pre.waiters[i]

\* C14 witness: two calls with distinct ids were outstanding, the response
\* to the second came first and settled it, the first still pending.
C14_Witness ==
  /\ last.op = "sandboxReceives"
  /\ Len(last.pre.waiters) = 2
  /\ DistinctIds(last.pre.waiters)
  /\ last.pre.waiters[1].status = "pending"
  /\ last.pre.waiters[2].status = "pending"
  /\ last.delivered.requestId = waiters[2].id
  /\ waiters[2].status = "resolved"
  /\ waiters[2].value = "payload"
  /\ waiters[1].status = "pending"
  /\ waiters[1].listening

\* C15: a call whose timer runs out before a matching response rejects
\* with the timeout fault and has its listener removed, and a matching
\* response that comes after the timeout changes nothing of the call.
\* (Under SpecSandbox.)
C15_TimeoutRejectsForGood ==
  /\ \A i \in DOMAIN waiters :
       (last.op = "timerFires" /\ last.waiter = i
          /\ last.pre.waiters[i].status = "pending")
         => /\ waiters[i].status = "rejected"
            /\ waiters[i].value = "API request timeout"
            /\ ~waiters[i].listening
  /\ ResponseDispatched =>
       \A i \in DOMAIN last.pre.waiters :
         last.pre.waiters[i].timer = "fired"
           => waiters[i] = last.pre.waiters[i]

\* C15 witness: the response of the host to a call arrived after the call
\* had timed out, and the call stayed rejected with the timeout fault.
C15_Witness ==
  /\ last.op = "sandboxReceives"
  /\ last.delivered.cause.kind = "data"
  /\ \E i \in DOMAIN waiters :
       /\ waiters[i].id = last.delivered.requestId
       /\ waiters[i].timer = "fired"
       /\ waiters[i].status = "rejected"
       /\ waiters[i].value = "API request timeout"

\* C16: a call is settled at most once: the first matching response removes
\* the listener, and neither a second response with the same id nor the
\* timer, which is not cancelled and runs out later, changes the outcome.
\* (Under SpecSandbox.)
C16_SettledAtMostOnce ==
  /\ \A i \in DOMAIN waiters :
       waiters[i].status # "pending" => ~waiters[i].listening
  /\ (ResponseDispatched \/ last.op = "timerFires") =>
       \A i \in DOMAIN last.pre.waiters :
         last.pre.waiters[i].status # "pending"
           => /\ waiters[i].status = last.pre.waiters[i].status
              /\ waiters[i].value = last.pre.waiters[i].value

\* C16 witness: a second response with the id of a call that a response of
\* the host had resolved was dispatched, and the call kept its payload.
C16_Witness ==
  /\ last.op = "strayResponse"
  /\ \E i \in DOMAIN waiters :
       /\ waiters[i].id = last.delivered.requestId
       /\ last.delivered.error = "stray error"
       /\ last.pre.waiters[i].status = "resolved"
       /\ waiters[i].status = "resolved"
       /\ waiters[i].value = "payload"

----------------------------------------------------------------------------
\* C21: sanitizing an artifact (no whitespace at its ends) that is wrapped in
\* a leading fence, plain or tagged html, and a trailing fence gives back
\* exactly the artifact; sanitizing an artifact that is clean gives it back
\* unchanged; so sanitizing what the sanitizer returned changes nothing.
C21_SanitizeRoundTrip ==
  Succeeded
    => /\ \A a \in Artifacts :
            last.outcome.text \in Wrappings(a) \cup {a}
              => lastGeneratedCode = a
       /\ sanitizeHtmlResponse(lastGeneratedCode) = lastGeneratedCode

----------------------------------------------------------------------------
\* The last operation resumed a generateVisualization call whose completion
\* settled after destroy().
SettledAfterDestroy == last.op = "completion" /\ ~last.pre.dom

\* C22: when destroy() was called while a completion was awaited, the
\* completion's settling later, resolved or rejected, does nothing: session
\* state, context, sandbox and history (in memory and in the store) stay as
\* they are, onError is not called, and the promise generateVisualization
\* returned does not reject.
C22_SettlingAfterDestroyIsNoOp ==
  SettledAfterDestroy
    => /\ state = last.pre.state
       /\ uiState = last.pre.uiState
       /\ ContextKept
       /\ HistoryKept
       /\ iframe = last.pre.iframe
       /\ srcdoc = last.pre.srcdoc
       /\ activeHistoryIndex = last.pre.activeHistoryIndex
       /\ last.onError = <<>>
       /\ last.errorBox = Untouched
       /\ last.promise # "rejected"

----------------------------------------------------------------------------
\* The last operation was the arrival, at the host, of a message that a
\* document of the sandbox had posted before a new document replaced it.
ArrivedFromReplacedDocument ==
  /\ MessageArrived
  /\ last.pre.toHost # <<>>
  /\ toHost = Tail(last.pre.toHost)
  /\ Head(last.pre.toHost).superseded
  /\ last.pre.iframe # "none"

\* C23: once a new sandbox context has replaced an earlier one, no message
\* of the earlier one, request or fault report, one in flight at the moment
\* of the replacement included, is acted on by the host: no fetch starts, no
\* state changes, onError is not called.  (Under SpecBridge.)
C23_ReplacedDocumentIsNotHeard ==
  ArrivedFromReplacedDocument => NothingDone

----------------------------------------------------------------------------
\* The widget shows the controls of 'generating' and a call is awaited:
\* nothing was rendered since the last submission, so a document in the
\* sandbox is one that was rendered before it.
AwaitingSinceSubmission(s) == s.uiState = "generating" /\ s.pending # {}

\* C24: a submission that starts a generation tears down the sandbox context
\* rendered before it, as selecting a history entry does (one context at a
\* time): while the generation is awaited that context is not alive, and a
\* request or fault report of it is not acted on.
C24_SubmissionTearsDownSandbox ==
  /\ (Submitted /\ last.promise = "pending")
       => (iframe = "none" /\ srcdoc = <<>>)
  /\ (MessageArrived /\ last.source = "sandbox"
        /\ AwaitingSinceSubmission(last.pre))
       => NothingDone
  /\ last.op = "selectHistory" => (waiters = <<>> /\ toSandbox = <<>>)

----------------------------------------------------------------------------
\* The operations of the first widget, and those of the second.
OfFirstWidget ==
  last.op \in { "generateVisualization", "completion", "clearVisualization",
                "selectHistory", "removeHistory", "clearHistory", "destroy" }
OfSecondWidget == last.op \in {"peerSaves", "peerReloads"}

\* The widget whose list was h before the last operation and is h2 after it
\* would still load its own list from the store if it did before.
StillFindsItsHistory(h, h2) ==
  loadHistory(last.pre.storage) = h => loadHistory(storage) = h2

\* C25: two widgets on one page are independent: no operation on one of
\* them changes the session state, the context, the sandbox or the history
\* of the other, neither in memory nor as the other would load it from the
\* durable store afterwards.  (Under SpecTwo.)
C25_InstancesAreIndependent ==
  /\ OfFirstWidget
       => /\ peer = last.pre.peer
          /\ StillFindsItsHistory(last.pre.peer.history, peer.history)
  /\ OfSecondWidget
       => /\ state = last.pre.state
          /\ uiState = last.pre.uiState
          /\ ContextKept
          /\ activeHistoryIndex = last.pre.activeHistoryIndex
          /\ iframe = last.pre.iframe
          /\ srcdoc = last.pre.srcdoc
          /\ history = last.pre.history
          /\ StillFindsItsHistory(last.pre.history, history)

----------------------------------------------------------------------------
\* The constructor ran with a configuration it accepts over a store whose
\* record is missing, is no JSON, or is JSON of something that is no list of
\* entries.
ConstructedOverBadRecord ==
  /\ last.op = "constructor"
  /\ ~ConfigRefused
  /\ last.pre.storage
       \in {NoRecord, CorruptRecord, NonListRecord, NoEntryRecord}

\* C26: loading the history at startup never fails the construction: with
\* the record missing, not parseable, or parsed to something that is no list
\* of entries, the constructor returns the widget and the history is empty.
\* (Under SpecConstruct.)
C26_LoadingHistoryIsNotFatal ==
  ConstructedOverBadRecord
    => /\ ~last.threw
       /\ history = <<>>
       /\ dom
       /\ listening

----------------------------------------------------------------------------
\* The last operation wrote to the durable store while the store threw.
WroteToFailingStore ==
  /\ ~last.pre.storeWorks
  /\ \/ last.op \in {"removeHistory", "clearHistory"}
     \/ Succeeded

\* C27: a durable store that fails on write fails no operation: saving,
\* replacing, removing and clearing still apply to the history in memory,
\* nothing is thrown, onError is not called, and the generation around a
\* save ends in 'displaying'.  (Under SpecStore.  The entry a generation
\* writes is looked at when the active index had an entry.)
C27_StoreFailureIsSwallowed ==
  WroteToFailingStore
    => /\ ~last.threw
       /\ last.promise # "rejected"
       /\ last.onError = <<>>
       /\ last.op = "removeHistory"
            => Len(history) = Len(last.pre.history) - 1
       /\ last.op = "clearHistory" => history = <<>>
       /\ Succeeded => state = "displaying"
       /\ (Succeeded /\ last.pre.activeHistoryIndex < Len(last.pre.history))
            => /\ activeHistoryIndex \in 0..(Len(history) - 1)
               /\ history[activeHistoryIndex + 1].html = lastGeneratedCode
               /\ history[activeHistoryIndex + 1].timestamp = now

----------------------------------------------------------------------------
\* The last operation found config.chatCompletion failing: the promise it
\* had returned rejected, or it threw when called; the widget has its DOM
\* and an onError callback.
CompletionCallbackFailed ==
  /\ dom
  /\ hasOnError
  /\ \/ /\ last.op = "completion"
        /\ last.outcome.kind \in {"rejectError", "rejectValue"}
     \/ /\ last.op = "generateVisualization"
        /\ last.prompt # <<>>
        /\ last.promise # "pending"

\* C28: a failure handed to onError carries the type of its category: when
\* the completion callback fails, onError receives one error, whose type is
\* 'chat-completion-failed'.
C28_CompletionFailureIsTyped ==
  CompletionCallbackFailed
    => /\ Len(last.onError) = 1
       /\ last.onError[1].type = "chat-completion-failed"

----------------------------------------------------------------------------
\* The last operation rendered the artifact the widget holds.
Rendered ==
  /\ Succeeded \/ last.op = "selectHistory"
  /\ lastGeneratedCode # Null

\* The positions of the bridge in the sandbox's document, from 1
BridgeAt == {i \in DOMAIN srcdoc : srcdoc[i] = "BRIDGE"}

\* C29: the bridge is installed before any generated script runs, whatever
\* the shape of the artifact: in the document given to the sandbox no script
\* of the artifact stands before the bridge script, also when the artifact's
\* head holds scripts before the closing head marker.  (Under SpecInject.)
C29_BridgeBeforeEveryScript ==
  Rendered
    => /\ BridgeAt # {}
       /\ \A b \in BridgeAt : \A i \in 1..(b - 1) : srcdoc[i] # "SCRIPT"

\* The marker m, in any case of its letters, is in a at position i (from 0)
MarkerAt(a, m, i) ==
  /\ i + Len(m) <= Len(a)
  /\ toLowerCase(SubSeq(a, i + 1, i + Len(m))) = m

\* The position of the first marker m in a, or -1
FirstMarker(a, m) ==
  LET hits == {i \in 0..Len(a) : MarkerAt(a, m, i)}
  IN  IF hits = {} THEN -1 ELSE CHOOSE i \in hits : \A j \in hits : i <= j

\* The artifact a with the bridge put in at position i (from 0)
WithBridgeAt(a, i) == SubSeq(a, 1, i) \o bridge \o SubSeq(a, i + 1, Len(a))

\* Where the bridge belongs in the artifact a: before the first closing head
\* marker; without one, behind the '>' of the first opening body tag, and
\* for a tag that has no '>' behind the tag's name or at the document's end;
\* without either, in front of the document.
BridgePlaces(a) ==
  LET head == FirstMarker(a, HeadClose)
      body == FirstMarker(a, BodyOpen)
      closes == {i \in (body + Len(BodyOpen) + 1)..Len(a) : a[i] = ">"}
  IN  IF head # -1 THEN {head}
      ELSE IF body = -1 THEN {0}
      ELSE IF closes # {} THEN {CHOOSE i \in closes : \A j \in closes : i <= j}
      ELSE {body + Len(BodyOpen), Len(a)}

\* C30: the injection puts the bridge script into the artifact exactly once
\* and leaves the artifact's text as it is: immediately before the first
\* closing head marker if there is one, otherwise immediately behind the
\* end of the first opening body tag if there is one (also when the tag has
\* no closing '>'), otherwise in front of the whole document.  (Under
\* SpecInject.)
C30_BridgeInsertedOnceInPlace ==
  Rendered
    => /\ Cardinality(BridgeAt) = 1
       /\ \E i \in BridgePlaces(lastGeneratedCode) :
            srcdoc = WithBridgeAt(lastGeneratedCode, i)

----------------------------------------------------------------------------
\* The last operation resumed a generateVisualization call from a completion
\* that resolved to text whose sanitized form is empty or whitespace only.
EmptyOutputSettled ==
  /\ last.op = "completion"
  /\ last.outcome.kind = "text"
  /\ trim(sanitizeHtmlResponse(last.outcome.text)) = <<>>

\* The sandbox, the held artifact and the active history index are what
\* they were before the last operation.
RenderingKept ==
  /\ iframe = last.pre.iframe
  /\ srcdoc = last.pre.srcdoc
  /\ lastGeneratedCode = last.pre.lastGeneratedCode
  /\ activeHistoryIndex = last.pre.activeHistoryIndex

\* C31: a generator output whose sanitized form is empty or whitespace only
\* (such as fence markers and whitespace) is rejected as a fault and not
\* rendered: neither the submission nor the settling of the completion
\* changes the sandbox's content, the held artifact or the active history
\* index.
C31_EmptyOutputIsNotRendered ==
  /\ Submitted => RenderingKept
  /\ EmptyOutputSettled
       => /\ RenderingKept
          /\ dom => last.errorBox = showError(EmptyResponseError.message)

\* C31 witness: the widget shows an artifact of the history, and a
\* completion that resolved to fence markers and whitespace is rejected.
C31_Witness ==
  /\ EmptyOutputSettled
  /\ last.outcome.text = <<"bt", "bt", "bt", "html", " ", "bt", "bt", "bt">>
  /\ srcdoc # <<>>
  /\ lastGeneratedCode # Null
  /\ activeHistoryIndex # NoIndex
  /\ last.errorBox = "AI returned empty response"

----------------------------------------------------------------------------
\* The last operation handled an API_REQUEST of the sandbox: it called
\* config.apiRequest, or it resumed from the call and posted the response.
ApiRequestHandled == last.op \in {"apiRequest", "fetchSettles"}

\* The session is what it was before the last operation: state, controls,
\* conversation context, history, sandbox, completions awaited.
SessionKept ==
  /\ state = last.pre.state
  /\ uiState = last.pre.uiState
  /\ ContextKept
  /\ activeHistoryIndex = last.pre.activeHistoryIndex
  /\ HistoryKept
  /\ iframe = last.pre.iframe
  /\ srcdoc = last.pre.srcdoc
  /\ pending = last.pre.pending

\* C32: a fetch call, resolving or rejecting, bears on the one bridge
\* request it serves only: handling an API_REQUEST leaves session state,
\* conversation context, history and sandbox content as they were, calls
\* onError not at all and lets no exception out; the response carries the id
\* of the request served, and the other fetch calls stay awaited.  (Under
\* SpecBridge.)
C32_FetchFailureStaysInItsRequest ==
  ApiRequestHandled
    => /\ SessionKept
       /\ last.onError = <<>>
       /\ last.errorBox = Untouched
       /\ ~last.threw
       /\ last.promise # "rejected"
       /\ waiters = last.pre.waiters
       /\ last.op = "apiRequest"
            => \E replaced \in BOOLEAN :
                 fetches = last.pre.fetches
                             \cup {[ requestId |-> last.received.requestId,
                                     url |-> last.received.url,
                                     superseded |-> replaced ]}
       /\ last.op = "fetchSettles"
            => \E f \in last.pre.fetches :
                 /\ f.url = last.fetched
                 /\ fetches = last.pre.fetches \ {f}
                 /\ last.posted # NoMessage
                      => /\ last.posted.requestId = f.requestId
                         /\ toSandbox = Append(last.pre.toSandbox, last.posted)

\* C32 witness: a fetch call rejected while the widget, which has an
\* onError callback, displays an artifact and has another fetch call
\* awaited; the fault went into the response.
C32_Witness ==
  /\ last.op = "fetchSettles"
  /\ last.posted.cause.kind = "rejectError"
  /\ last.posted.error = "fetch failed"
  /\ hasOnError
  /\ uiState = "displaying"
  /\ fetches # {}

----------------------------------------------------------------------------
\* The generateVisualization call the last operation resumed
SettledCall == CHOOSE c \in last.pre.pending : c \notin pending

\* The last operation resumed a generateVisualization call that overlapped
\* with another one: the other call is still awaited, or it was made later
\* and has settled before.
OverlappingSettled ==
  /\ last.op = "completion"
  /\ dom
  /\ \/ pending # {}
     \/ SettledCall.id < callsMade

\* C33: generateVisualization can be called while a generation is awaited:
\* the second completion call is issued as well; when a call of the two
\* settles, state, held artifact and sandbox content are those this
\* completion writes, so that the one that settles last decides, and each
\* completion that succeeds puts an entry of its own into the history (an
\* improvement the entry that takes the place of the one it improves).
\* (Under SpecOverlap.)
C33_OverlappingGenerationsLastWins ==
  /\ (Submitted /\ last.pre.pending # {})
       => /\ last.promise = "pending"
          /\ Cardinality(pending) = Cardinality(last.pre.pending) + 1
  /\ (OverlappingSettled /\ last.outcome.kind = "text")
       => LET html == sanitizeHtmlResponse(last.outcome.text)
          IN  /\ state = "displaying"
              /\ lastGeneratedCode = html
              /\ srcdoc = injectApiBridge(html)
              /\ \E i \in DOMAIN history :
                   /\ history[i].html = html
                   /\ history[i].timestamp = now
                   /\ \/ /\ i = 1
                         /\ history = saveHistory(last.pre.history, history[1])
                      \/ /\ SettledCall.isImprovement
                         /\ i = last.pre.activeHistoryIndex + 1
                         /\ history = replaceHistory(last.pre.history, i - 1,
                                                     history[i])
  /\ (OverlappingSettled /\ last.outcome.kind # "text")
       => /\ state = "error"
          /\ lastGeneratedCode = last.pre.lastGeneratedCode
          /\ srcdoc = last.pre.srcdoc
          /\ HistoryKept

----------------------------------------------------------------------------
\* The last operation was the listener's, for a message of no known shape
\* that the owned sandbox had posted.
UnknownShapeArrived ==
  /\ last.received \in UnknownShapes
  /\ last.source = "sandbox"
  /\ last.pre.iframe # "none"
  /\ last.pre.listening

\* C34: a message of the owned sandbox that matches no known shape (an
\* unknown type, an API_REQUEST without request id or without URL, a
\* payload that is null or no object) is ignored: no fetch call is made,
\* nothing of the session changes, onError is not called and no exception
\* leaves the host's message handler.  (Under SpecShapes.)
C34_UnknownShapeIsIgnored ==
  UnknownShapeArrived
    => /\ fetches = last.pre.fetches
       /\ last.fetched = ""
       /\ SessionKept
       /\ toSandbox = last.pre.toSandbox
       /\ last.onError = <<>>
       /\ last.errorBox = Untouched
       /\ ~last.threw

----------------------------------------------------------------------------
\* C35: after any sequence of generations, history selections, removals,
\* clearing of the history and clearing of the visualization, an active
\* history index that is set lies within the history, and the entry at the
\* index holds the artifact the widget holds as its conversation context.
C35_ActiveIndexPointsAtHeldArtifact ==
  activeHistoryIndex # NoIndex
    => /\ activeHistoryIndex >= 0
       /\ activeHistoryIndex < Len(history)
       /\ history[activeHistoryIndex + 1].html = lastGeneratedCode

----------------------------------------------------------------------------
\* C36: the history entry a successful generation writes is determined by
\* the context at submission, whatever was selected, removed or cleared
\* while the completion was awaited: the entry carries the original prompt
\* of the conversation that was submitted, and it is written over no entry
\* but the one that was active at submission (over none when the submission
\* was no improvement of an active entry).  Stated for the call that was
\* submitted last, so that no later submission bears on it.  (Under
\* SpecOverlap.)
C36_EntryFollowsSubmission ==
  (Succeeded /\ SettledCall.id = callsMade)
    => LET c == SettledCall
           html == sanitizeHtmlResponse(last.outcome.text)
       IN  /\ \E i \in DOMAIN history :
                history[i] = HistoryItem(c.orig, html, now)
           /\ \A j \in DOMAIN last.pre.history :
                (Len(history) = Len(last.pre.history)
                   /\ history[j] # last.pre.history[j])
                  => last.pre.history[j] = c.target

----------------------------------------------------------------------------
\* The fetch call the last operation resumed from
ServedFetch == CHOOSE f \in last.pre.fetches : f \notin fetches

\* C37: the host posts an API_RESPONSE into the sandbox context that issued
\* the request only: when that context was replaced or cleared while the
\* fetch call was awaited, the response is dropped, and it is not posted
\* into another, newer context.  (Under SpecBridge.)
C37_ResponseOnlyToItsContext ==
  (last.op = "fetchSettles" /\ ServedFetch.superseded)
    => /\ last.posted = NoMessage
       /\ toSandbox = last.pre.toSandbox

----------------------------------------------------------------------------
\* The last operation changed the history in memory, and the store took
\* writes when it did.
HistoryMutated ==
  /\ \/ last.op \in {"removeHistory", "clearHistory"}
     \/ last.op = "replaceHistory" /\ history # last.pre.history
     \/ Succeeded
  /\ last.pre.storeWorks

\* C38: with a working store, after every mutation of the history
\* (insertion, replacement, removal, clearing) the record in the store
\* decodes to the history in memory, no record counting as the empty
\* history: a widget constructed afterwards loads the same entries in the
\* same order.  (Under SpecRecord.)
C38_RecordMatchesHistory ==
  HistoryMutated
    => /\ loadHistory(storage) = history
       /\ history # <<>> => storage = JSONstringify(history)
       /\ renderHistoryList(loadHistory(storage)) = NoFault

\* C38 witness: an entry is replaced while the store works, after a write
\* that failed had left the record behind the history in memory; the
\* record now matches.
C38_Witness ==
  /\ last.op = "replaceHistory"
  /\ HistoryMutated
  /\ loadHistory(last.pre.storage) # last.pre.history
  /\ Len(history) >= 2
  /\ loadHistory(storage) = history

----------------------------------------------------------------------------
\* C39: the session does not stay in 'generating' when the work is done:
\* while no completion is awaited the state is not 'generating', and once
\* a completion is awaited (and settles in the end) there comes a moment
\* when none is awaited and the state is 'displaying' or 'error', also when
\* fault reports of the sandbox, history selections and clearing come in
\* between.  (Under SpecLive.)
C39_GeneratingEnds ==
  /\ [](pending = {} => state # "generating")
  /\ (pending # {}) ~> (pending = {} /\ state \in {"displaying", "error"})

====
